---- MODULE Spec2Model ----
(***************************************************************************)
(* A model of the core of the quilt/lighthouse node:                       *)
(*   - the beacon per-block state transition                               *)
(*       (eth2/state_processing/src/per_block_processing.rs),              *)
(*   - the shard attestation pool (eth2/shard_operation_pool/src/lib.rs),  *)
(*   - the peer protocol handler                                           *)
(*       (beacon_node/network/src/sync/message_processor.rs).              *)
(* Each subsystem has its own specification (SpecBlock, SpecPool, SpecNet) *)
(* over the variables it owns; the other variables stay at their initial   *)
(* value.                                                                  *)
(***************************************************************************)
EXTENDS Integers, Sequences, FiniteSets, TLC

VARIABLES
    \* ---- per-block processing
    state,      \* the BeaconState handed to per_block_processing (&mut state)
    pre,        \* that state as it was when per_block_processing was called
    block,      \* the BeaconBlock being processed (fields as read so far)
    pc,         \* position inside per_block_processing_signature_optional
    result,     \* Result<(), Error> of the call / of the step that ended it
    replay,     \* the outcome of a second evaluation of the same step on the
                \* same state and block, under another scheduling of rayon
    nblocks,    \* number of calls made so far
    \* ---- shard operation pool
    attestations,   \* HashMap<AttestationId, Vec<ShardAttestation>>
    inserted,       \* history: the attestations given to insert_attestation
    pool_call,      \* history: the last call on the pool, the map before it, its return
    \* ---- message processor
    chain,          \* the beacon chain as the handler reads it
    network_send,   \* messages sent on the channel to the network service
    sync_send,      \* messages sent on the channel to the sync manager
    sync_peers,     \* the peers the sync manager holds
    connected,      \* the peers with an open connection
    last,           \* the last handler run: its input and its return value
    \* ---- two message processors in a handshake
    nodes,          \* the beacon chain of each of the two nodes
    wire,           \* per node, the RPC events sent to it and not yet handled
    dialed,         \* the nodes whose on_connect has run
    status_count,   \* history: the Status messages sent so far
    handled,        \* history: the last event handled, and what its handler sent
    \* ---- the channel to the sync manager
    received,       \* history: the response chunks handed to the message processor
    sync_channel,   \* the messages in the channel, oldest first
    sync_alive,     \* the sync manager holds the receiving half of the channel
    sync_got,       \* history: the messages the sync manager has taken
    dropped,        \* history: the messages the channel refused (logged with warn)
    \* ---- status_message beside the thread that updates the head
    head,           \* the beacon chain's head: the chain up to its (block, state) pair
    sm_pc,          \* position inside status_message
    sm_state,       \* the head whose beacon_state status_message holds
    sm_status,      \* the StatusMessage it built
    heads_seen,     \* history: the heads the chain had while the message was built
    \* ---- threads that call the pool at the same time
    shared_pool,    \* the HashMap behind the pool's RwLock
    lock,           \* the RwLock: the thread that holds it for writing, those for reading
    threads,        \* per thread: its call, its position in it, its locals, its return
    first_pool,     \* history: the map before the calls
    lock_order,     \* history: the threads in the order they were given the lock
    \* ---- the client builder and the services it starts
    components,     \* the fields of the builder that are Some
    exit_signals,   \* ClientBuilder.exit_signals
    client_exit_signals, \* Client._exit_signals
    holder,         \* who holds the list: the builder, the client, nobody
    tasks,          \* the tasks spawned on the executor, one per started service
    signals_dropped,\* the exit signals that have been dropped
    last_step,      \* history: the last builder step and the list around it
    \* ---- shard blocks and their canonical roots
    shard_block,    \* a ShardBlock
    other_block,    \* another ShardBlock
    shard_roots,    \* the canonical roots computed of them, and of the header of the first
    \* ---- fork choice: the reduced tree and the walk of find_head
    ghost_tree,     \* the reduced tree: each node's parent and the votes on it
    fh_pc,          \* find_head: "idle", "walking", "returned"
    fh_start,       \* start_block_root
    fh_path,        \* the nodes find_head has been at, the latest last
    \* ---- threads that call insert_body and get_body
    pool_body,      \* OperationPool.body, behind its RwLock
    body_calls,     \* per thread: its call, its position in it, its locals, its return
    body_erased,    \* history: the bodies that the reset of get_body overwrote
    \* ---- shard per-slot processing and the loop that calls it
    shard_state,    \* the ShardState handed to per_shard_slot_processing
    chain_spec,     \* the ChainSpec
    slot_loop       \* the caller's loop: its position, the block's slot, its calls

blockVars == <<state, pre, block, pc, result, replay, nblocks>>
poolVars  == <<attestations, inserted, pool_call>>
netVars   == <<chain, network_send, sync_send, sync_peers, connected, last>>
hsVars    == <<nodes, wire, dialed, status_count, handled>>
fwdVars   == <<received, sync_channel, sync_alive, sync_got, dropped>>
headVars  == <<head, sm_pc, sm_state, sm_status, heads_seen>>
threadVars == <<shared_pool, lock, threads, first_pool, lock_order>>
builderVars == <<components, exit_signals, client_exit_signals, holder, tasks,
                 signals_dropped, last_step>>
vars      == <<state, pre, block, pc, result, replay, nblocks,
               attestations, inserted, pool_call,
               chain, network_send, sync_send, sync_peers, connected, last,
               nodes, wire, dialed, status_count, handled,
               received, sync_channel, sync_alive, sync_got, dropped,
               head, sm_pc, sm_state, sm_status, heads_seen,
               shared_pool, lock, threads, first_pool, lock_order,
               components, exit_signals, client_exit_signals, holder, tasks,
               signals_dropped, last_step, shard_block, other_block, shard_roots,
               ghost_tree, fh_pc, fh_start, fh_path, pool_body,
               body_calls, body_erased, shard_state, chain_spec, slot_loop>>

(***************************************************************************)
(* Bounds of the model.                                                    *)
(***************************************************************************)
MaxSlot == 2            \* slots run 0..MaxSlot
MaxBlocks == 1          \* calls of per_block_processing in one behaviour
MaxListLen == 2         \* objects in one operation list of a block body
MaxBlockOps == 2        \* objects in a whole block body
NumValidators == 2      \* validators in the genesis registry
MaxDepositCount == 2    \* eth1 deposit counts run 0..MaxDepositCount

\* Protocol maxima of the ChainSpec (spec.max_*), scaled down.
MaxProposerSlashings == 2
MaxAttesterSlashings == 1
MaxAttestations == 2
MaxDeposits == 2
MaxVoluntaryExits == 1
MaxTransfers == 1
SlotsPerEth1VotingPeriod == 2
SlotsPerEpoch == 2

\* u64 arithmetic, at a reduced width.
U64Bits == 3
U64Mod == 2 ^ U64Bits
AddU64(a, b) == (a + b) % U64Mod
SubU64(a, b) == (a - b + U64Mod) % U64Mod

Min(a, b) == IF a <= b THEN a ELSE b

RECURSIVE SumLen(_, _)
SumLen(f, keys) ==
    IF keys = {} THEN 0
    ELSE LET k == CHOOSE x \in keys : TRUE
         IN  Len(f[k]) + SumLen(f, keys \ {k})

\* All sequences over S of length at most n.
RECURSIVE SeqsUpTo(_, _)
SeqsUpTo(S, n) ==
    IF n = 0 THEN {<<>>}
    ELSE LET shorter == SeqsUpTo(S, n - 1)
         IN  shorter \cup {Append(s, x) : s \in {t \in shorter : Len(t) = n - 1}, x \in S}

(***************************************************************************)
(* Results.  Ok(()) and Err(Invalid(step, index, reason)): index is the    *)
(* 0-based index attached by into_with_index, NoIndex when the error has   *)
(* none.                                                                   *)
(***************************************************************************)
NoIndex == -1
Ok == [ok |-> TRUE, step |-> "", index |-> NoIndex, reason |-> ""]
Err(step, index, reason) == [ok |-> FALSE, step |-> step, index |-> index, reason |-> reason]
Pending == [ok |-> FALSE, step |-> "pending", index |-> NoIndex, reason |-> ""]
\* The call did not return: arithmetic overflowed in a build with overflow
\* checks, and the thread panicked in this step.
Panic(step) == [ok |-> FALSE, step |-> step, index |-> NoIndex, reason |-> "panic"]

(***************************************************************************)
(* Roots and headers.  signed_root is the tree hash of the header without  *)
(* its signature: modelled as the tuple of the hashed fields.              *)
(***************************************************************************)
ZeroRoot == <<-1, <<>>, "zero">>
UnknownRoot == <<-2, <<>>, "zero">>
SignedRoot(header) == <<header.slot, header.previous_block_root, header.state_root>>

GenesisHeader ==
    [slot |-> 0, previous_block_root |-> ZeroRoot, state_root |-> "zero",
     signature |-> "empty"]

\* BeaconBlock::temporary_block_header: the block's header with a zero state
\* root and an empty signature.
TemporaryBlockHeader(b) ==
    [slot |-> b.slot, previous_block_root |-> b.previous_block_root,
     state_root |-> "zero", signature |-> "empty"]

(***************************************************************************)
(* The beacon state.                                                       *)
(***************************************************************************)
Validator(pubkey) == [pubkey |-> pubkey, slashed |-> FALSE, exit_initiated |-> FALSE]

Eth1Data(count, hash) == [deposit_count |-> count, block_hash |-> hash]

GenesisState(eth1) ==
    [slot |-> 0,
     latest_block_header |-> GenesisHeader,
     committee_caches |-> FALSE,
     latest_randao_mix |-> 0,
     eth1_data_votes |-> <<>>,
     latest_eth1_data |-> eth1,
     deposit_index |-> NumValidators,
     validator_registry |-> [i \in 1..NumValidators |-> Validator(i)],
     balances |-> [i \in 1..NumValidators |-> 2],
     current_epoch_attestations |-> <<>>,
     previous_epoch_attestations |-> <<>>]

\* The block as nothing of it has been read yet.
UnreadBlock ==
    [slot |-> 0, previous_block_root |-> ZeroRoot, signature_valid |-> TRUE,
     randao_reveal |-> [valid |-> TRUE, hash |-> 0],
     eth1_data |-> Eth1Data(0, 0),
     proposer_slashings |-> <<>>, attester_slashings |-> <<>>,
     attestations |-> <<>>, deposits |-> <<>>, voluntary_exits |-> <<>>,
     transfers |-> <<>>]

BodyLists ==
    {"proposer_slashings", "attester_slashings", "attestations", "deposits",
     "voluntary_exits", "transfers"}

\* Operations of the body read so far, and what the bound leaves for a list.
BodyOps(b) == SumLen(b, BodyLists)
Room(b) == Min(MaxListLen, MaxBlockOps - BodyOps(b))

CurrentEpoch(st) == st.slot \div SlotsPerEpoch

\* BeaconState::get_beacon_proposer_index, for the slot being processed.
BeaconProposerIndex(st, slot) == slot % Len(st.validator_registry)

\* Validator i, 0-based as in the code.
ValidatorAt(st, i) == st.validator_registry[i + 1]
IsValidatorIndex(st, i) == i >= 0 /\ i < Len(st.validator_registry)

\* rayon's par_iter().enumerate().try_for_each(verify): Ok when every object
\* verifies; otherwise the error of one of the invalid objects, which one is
\* not specified.  The set of the 0-based indices it may report ({} for Ok).
\* verdicts[k] tells whether the k-th object verifies.
InvalidIndices(verdicts) == {i \in 0..(Len(verdicts) - 1) : ~verdicts[i + 1]}

\* One outcome of a processing step: the state it leaves and its result.
Outcome(st, res) == [state |-> st, result |-> res]

(***************************************************************************)
(* process_block_header                                                    *)
(***************************************************************************)
\* verify_block_signature: the proposer's signature over the block's signed
\* root; the BLS check itself is the block's signature_valid.
VerifyBlockSignature(st, b) ==
    IF b.signature_valid THEN Ok ELSE Err("header", NoIndex, "BadSignature")

\* A variant that installs the new header only once every check has passed.
ProcessBlockHeaderInstallLast(st, b, should_verify_block_signature) ==
    IF b.slot # st.slot
    THEN Outcome(st, Err("header", NoIndex, "StateSlotMismatch"))
    ELSE IF b.previous_block_root # SignedRoot(st.latest_block_header)
    THEN Outcome(st, Err("header", NoIndex, "ParentBlockRootMismatch"))
    ELSE IF ValidatorAt(st, BeaconProposerIndex(st, b.slot)).slashed
    THEN Outcome(st, Err("header", NoIndex, "ProposerSlashed"))
    ELSE IF should_verify_block_signature /\ ~b.signature_valid
    THEN Outcome(st, Err("header", NoIndex, "BadSignature"))
    ELSE Outcome([st EXCEPT !.latest_block_header = TemporaryBlockHeader(b)], Ok)

\* A variant that compares the parent root before the slot.
ProcessBlockHeaderRootFirst(st, b, should_verify_block_signature) ==
    IF b.previous_block_root # SignedRoot(st.latest_block_header)
    THEN Outcome(st, Err("header", NoIndex, "ParentBlockRootMismatch"))
    ELSE IF b.slot # st.slot
    THEN Outcome(st, Err("header", NoIndex, "StateSlotMismatch"))
    ELSE LET st1 == [st EXCEPT !.latest_block_header = TemporaryBlockHeader(b)]
             proposer_idx == BeaconProposerIndex(st1, b.slot)
         IN  IF ValidatorAt(st1, proposer_idx).slashed
             THEN Outcome(st1, Err("header", NoIndex, "ProposerSlashed"))
             ELSE IF should_verify_block_signature
             THEN Outcome(st1, VerifyBlockSignature(st1, b))
             ELSE Outcome(st1, Ok)

\* A variant that verifies the signature whatever the caller asked for.
ProcessBlockHeaderAlwaysVerify(st, b, should_verify_block_signature) ==
    IF b.slot # st.slot
    THEN Outcome(st, Err("header", NoIndex, "StateSlotMismatch"))
    ELSE IF b.previous_block_root # SignedRoot(st.latest_block_header)
    THEN Outcome(st, Err("header", NoIndex, "ParentBlockRootMismatch"))
    ELSE LET st1 == [st EXCEPT !.latest_block_header = TemporaryBlockHeader(b)]
             proposer_idx == BeaconProposerIndex(st1, b.slot)
         IN  IF ValidatorAt(st1, proposer_idx).slashed
             THEN Outcome(st1, Err("header", NoIndex, "ProposerSlashed"))
             ELSE Outcome(st1, VerifyBlockSignature(st1, b))

ProcessBlockHeader(st, b, should_verify_block_signature) ==
    IF b.slot # st.slot
    THEN Outcome(st, Err("header", NoIndex, "StateSlotMismatch"))
    ELSE IF b.previous_block_root # SignedRoot(st.latest_block_header)
    THEN Outcome(st, Err("header", NoIndex, "ParentBlockRootMismatch"))
    ELSE LET st1 == [st EXCEPT !.latest_block_header = TemporaryBlockHeader(b)]
             proposer_idx == BeaconProposerIndex(st1, b.slot)
         IN  IF ValidatorAt(st1, proposer_idx).slashed
             THEN Outcome(st1, Err("header", NoIndex, "ProposerSlashed"))
             ELSE IF should_verify_block_signature
             THEN Outcome(st1, VerifyBlockSignature(st1, b))
             ELSE Outcome(st1, Ok)

(***************************************************************************)
(* state.build_committee_cache(Previous), (Current)                        *)
(***************************************************************************)
BuildCommitteeCaches(st) == Outcome([st EXCEPT !.committee_caches = TRUE], Ok)

(***************************************************************************)
(* process_randao                                                          *)
(***************************************************************************)
\* Bitwise xor of two mixes (two bits wide here).
Xor(a, b) == (((a % 2) + (b % 2)) % 2) + 2 * ((((a \div 2) % 2) + ((b \div 2) % 2)) % 2)

ProcessRandao(st, b) ==
    IF ~b.randao_reveal.valid
    THEN Outcome(st, Err("randao", NoIndex, "BadRandaoSignature"))
    ELSE Outcome([st EXCEPT !.latest_randao_mix = Xor(@, b.randao_reveal.hash)], Ok)

(***************************************************************************)
(* process_eth1_data                                                       *)
(***************************************************************************)
NumVotes(votes, eth1_data) == Cardinality({i \in 1..Len(votes) : votes[i] = eth1_data})

\* A variant that takes the vote with half of the period's votes.
ProcessEth1DataAtHalf(st, eth1_data) ==
    LET st1 == [st EXCEPT !.eth1_data_votes = Append(@, eth1_data)]
        num_votes == NumVotes(st1.eth1_data_votes, eth1_data)
    IN  IF num_votes * 2 >= SlotsPerEth1VotingPeriod
        THEN Outcome([st1 EXCEPT !.latest_eth1_data = eth1_data], Ok)
        ELSE Outcome(st1, Ok)

ProcessEth1Data(st, eth1_data) ==
    LET st1 == [st EXCEPT !.eth1_data_votes = Append(@, eth1_data)]
        num_votes == NumVotes(st1.eth1_data_votes, eth1_data)
    IN  IF num_votes * 2 > SlotsPerEth1VotingPeriod
        THEN Outcome([st1 EXCEPT !.latest_eth1_data = eth1_data], Ok)
        ELSE Outcome(st1, Ok)

(***************************************************************************)
(* common::slash_validator and common::initiate_validator_exit             *)
(***************************************************************************)
SlashingPenalty == 1

InitiateValidatorExit(st, i) ==
    [st EXCEPT !.validator_registry[i + 1].exit_initiated = TRUE]

\* Exits the validator, marks it slashed and takes the penalty from its
\* balance (saturating); the block's proposer gets the reward.
SlashValidator(st, i) ==
    LET st1 == InitiateValidatorExit(st, i)
        proposer == BeaconProposerIndex(st1, st1.slot)
        taken == Min(st1.balances[i + 1], SlashingPenalty)
        st2 == [st1 EXCEPT !.validator_registry[i + 1].slashed = TRUE,
                           !.balances[i + 1] = @ - taken]
    IN  [st2 EXCEPT !.balances[proposer + 1] = @ + taken]

(***************************************************************************)
(* process_proposer_slashings                                              *)
(***************************************************************************)
\* verify_proposer_slashing: the proposer exists, the two headers conflict
\* and are signed by it (the slashing's valid), and it can still be slashed.
VerifyProposerSlashing(st, ps) ==
    /\ IsValidatorIndex(st, ps.proposer_index)
    /\ ps.valid
    /\ ~ValidatorAt(st, ps.proposer_index).slashed

RECURSIVE SlashProposers(_, _, _)
SlashProposers(st, proposer_slashings, k) ==
    IF k > Len(proposer_slashings) THEN st
    ELSE SlashProposers(SlashValidator(st, proposer_slashings[k].proposer_index),
                        proposer_slashings, k + 1)

ProcessProposerSlashings(st, proposer_slashings) ==
    IF Len(proposer_slashings) > MaxProposerSlashings
    THEN {Outcome(st, Err("proposer_slashings", NoIndex, "MaxProposerSlashingsExceeded"))}
    ELSE LET bad == InvalidIndices([k \in DOMAIN proposer_slashings |->
                                      VerifyProposerSlashing(st, proposer_slashings[k])])
         IN  IF bad # {}
             THEN {Outcome(st, Err("proposer_slashings", i, "Invalid")) : i \in bad}
             ELSE {Outcome(SlashProposers(st, proposer_slashings, 1), Ok)}

(***************************************************************************)
(* process_attester_slashings                                              *)
(***************************************************************************)
\* verify_indexed_attestation: the BLS aggregate of one indexed attestation.
VerifyIndexedAttestation(st, ia) == ia.valid

\* The two indexed attestations of every slashing, in one list.
RECURSIVE IndexedAttestations(_, _)
IndexedAttestations(attester_slashings, k) ==
    IF k > Len(attester_slashings) THEN <<>>
    ELSE <<attester_slashings[k].attestation_1, attester_slashings[k].attestation_2>>
         \o IndexedAttestations(attester_slashings, k + 1)

\* verify_attester_slashing without the indexed attestations: the two votes
\* are a double vote or a surround vote.
VerifyAttesterSlashing(st, as) == as.slashable_data

\* get_slashable_indices: the validators in both attestations that can still
\* be slashed, in ascending order of index.
SlashableIndices(st, as) ==
    {i \in as.attestation_1.indices \cap as.attestation_2.indices :
        IsValidatorIndex(st, i) /\ ~ValidatorAt(st, i).slashed}

RECURSIVE SlashAll(_, _)
SlashAll(st, indices) ==
    IF indices = {} THEN st
    ELSE LET i == CHOOSE x \in indices : \A y \in indices : x <= y
         IN  SlashAll(SlashValidator(st, i), indices \ {i})

\* The serial loop over the slashings, from the k-th on.
RECURSIVE SlashAttesters(_, _, _)
SlashAttesters(st, attester_slashings, k) ==
    IF k > Len(attester_slashings) THEN Outcome(st, Ok)
    ELSE LET as == attester_slashings[k]
         IN  IF ~VerifyAttesterSlashing(st, as)
             THEN Outcome(st, Err("attester_slashings", k - 1, "NotSlashable"))
             ELSE IF SlashableIndices(st, as) = {}
             THEN Outcome(st, Err("attester_slashings", k - 1, "NoSlashableIndices"))
             ELSE SlashAttesters(SlashAll(st, SlashableIndices(st, as)),
                                 attester_slashings, k + 1)

ProcessAttesterSlashings(st, attester_slashings) ==
    IF Len(attester_slashings) > MaxAttesterSlashings
    THEN {Outcome(st, Err("attester_slashings", NoIndex, "MaxAttesterSlashingsExceed"))}
    ELSE LET ias == IndexedAttestations(attester_slashings, 1)
             bad == InvalidIndices([k \in DOMAIN ias |->
                                      VerifyIndexedAttestation(st, ias[k])])
         IN  IF bad # {}
             THEN {Outcome(st, Err("attester_slashings", i, "BadIndexedAttestation")) : i \in bad}
             ELSE {SlashAttesters(st, attester_slashings, 1)}

(***************************************************************************)
(* process_attestations                                                    *)
(***************************************************************************)
\* validate_attestation: the attestation is for the current or the previous
\* epoch, is not from the future, and its signature and crosslink hold (the
\* attestation's valid).
ValidateAttestation(st, att) ==
    /\ att.valid
    /\ att.data.slot <= st.slot
    /\ \/ att.data.target_epoch = CurrentEpoch(st)
       \/ att.data.target_epoch + 1 = CurrentEpoch(st)

PendingAttestation(st, att) ==
    [data |-> att.data,
     inclusion_delay |-> st.slot - att.data.slot,
     proposer_index |-> BeaconProposerIndex(st, st.slot)]

\* A variant of the loop that pushes every attestation to the current
\* epoch's list.
RECURSIVE PushAttestationsAllCurrent(_, _, _)
PushAttestationsAllCurrent(st, atts, k) ==
    IF k > Len(atts) THEN st
    ELSE PushAttestationsAllCurrent(
             [st EXCEPT !.current_epoch_attestations =
                            Append(@, PendingAttestation(st, atts[k]))],
             atts, k + 1)

RECURSIVE PushAttestations(_, _, _)
PushAttestations(st, atts, k) ==
    IF k > Len(atts) THEN st
    ELSE LET pending == PendingAttestation(st, atts[k])
             st1 == IF atts[k].data.target_epoch = CurrentEpoch(st)
                    THEN [st EXCEPT !.current_epoch_attestations = Append(@, pending)]
                    ELSE [st EXCEPT !.previous_epoch_attestations = Append(@, pending)]
         IN  PushAttestations(st1, atts, k + 1)

ProcessAttestations(st, atts) ==
    IF Len(atts) > MaxAttestations
    THEN {Outcome(st, Err("attestations", NoIndex, "MaxAttestationsExceeded"))}
    ELSE LET st1 == [st EXCEPT !.committee_caches = TRUE]
             bad == InvalidIndices([k \in DOMAIN atts |-> ValidateAttestation(st1, atts[k])])
         IN  IF bad # {}
             THEN {Outcome(st1, Err("attestations", i, "Invalid")) : i \in bad}
             ELSE {Outcome(PushAttestations(st1, atts, 1), Ok)}

(***************************************************************************)
(* process_deposits                                                        *)
(***************************************************************************)
\* verify_deposit_merkle_proof against state.latest_eth1_data.deposit_root.
VerifyDepositMerkleProof(st, deposit) == deposit.proof_valid

\* verify_deposit_index: the deposit is the next one the state expects.
VerifyDepositIndex(st, deposit) == deposit.index = st.deposit_index

\* get_existing_validator_index: the 0-based index of the validator with the
\* deposit's pubkey, or NoIndex (None).
ExistingValidatorIndex(st, deposit) ==
    LET found == {i \in 0..(Len(st.validator_registry) - 1) :
                    ValidatorAt(st, i).pubkey = deposit.pubkey}
    IN  IF found = {} THEN NoIndex ELSE CHOOSE i \in found : TRUE

\* verify_deposit_signature: the BLS signature of the deposit message.
VerifyDepositSignature(st, deposit) == deposit.signature_valid

\* A variant of the loop that pushes the balance of a new validator twice.
RECURSIVE ApplyDepositsBalanceTwice(_, _, _)
ApplyDepositsBalanceTwice(st, deposits, k) ==
    IF k > Len(deposits) THEN Outcome(st, Ok)
    ELSE LET deposit == deposits[k]
         IN  IF ~VerifyDepositIndex(st, deposit)
             THEN Outcome(st, Err("deposits", k - 1, "BadIndex"))
             ELSE LET st1 == [st EXCEPT !.deposit_index = AddU64(@, 1)]
                      validator_index == ExistingValidatorIndex(st1, deposit)
                  IN  IF validator_index # NoIndex
                      THEN ApplyDepositsBalanceTwice(
                               [st1 EXCEPT !.balances[validator_index + 1] =
                                               @ + deposit.amount],
                               deposits, k + 1)
                      ELSE IF ~VerifyDepositSignature(st1, deposit)
                      THEN Outcome(st1, Ok)
                      ELSE ApplyDepositsBalanceTwice(
                               [st1 EXCEPT
                                   !.validator_registry = Append(@, Validator(deposit.pubkey)),
                                   !.balances = Append(Append(@, deposit.amount),
                                                       deposit.amount)],
                               deposits, k + 1)

\* The serial loop over the deposits, from the k-th on.
RECURSIVE ApplyDeposits(_, _, _)
ApplyDeposits(st, deposits, k) ==
    IF k > Len(deposits) THEN Outcome(st, Ok)
    ELSE LET deposit == deposits[k]
         IN  IF ~VerifyDepositIndex(st, deposit)
             THEN Outcome(st, Err("deposits", k - 1, "BadIndex"))
             ELSE LET st1 == [st EXCEPT !.deposit_index = AddU64(@, 1)]
                      validator_index == ExistingValidatorIndex(st1, deposit)
                  IN  IF validator_index # NoIndex
                      THEN ApplyDeposits(
                               [st1 EXCEPT !.balances[validator_index + 1] =
                                               @ + deposit.amount],
                               deposits, k + 1)
                      ELSE IF ~VerifyDepositSignature(st1, deposit)
                      THEN Outcome(st1, Ok)     \* return Ok(()) out of the loop
                      ELSE ApplyDeposits(
                               [st1 EXCEPT
                                   !.validator_registry = Append(@, Validator(deposit.pubkey)),
                                   !.balances = Append(@, deposit.amount)],
                               deposits, k + 1)

ExpectedDeposits(st) ==
    Min(MaxDeposits, SubU64(st.latest_eth1_data.deposit_count, st.deposit_index))

\* deposit_count - deposit_index underflows.
DepositSubtractionUnderflows(st) == st.latest_eth1_data.deposit_count < st.deposit_index

\* process_deposits in a build without overflow checks (the subtraction
\* wraps around), or when nothing underflows.
ProcessDepositsWrapping(st, deposits) ==
    IF Len(deposits) # ExpectedDeposits(st)
    THEN {Outcome(st, Err("deposits", NoIndex, "DepositCountInvalid"))}
    ELSE LET bad == InvalidIndices([k \in DOMAIN deposits |->
                                      VerifyDepositMerkleProof(st, deposits[k])])
         IN  IF bad # {}
             THEN {Outcome(st, Err("deposits", i, "BadMerkleProof")) : i \in bad}
             ELSE {ApplyDeposits(st, deposits, 1)}

\* process_deposits: on an underflow, what either build does.
ProcessDeposits(st, deposits) ==
    IF DepositSubtractionUnderflows(st)
    THEN ProcessDepositsWrapping(st, deposits) \cup {Outcome(st, Panic("deposits"))}
    ELSE ProcessDepositsWrapping(st, deposits)

(***************************************************************************)
(* process_exits                                                           *)
(***************************************************************************)
\* verify_exit: the validator exists, has not initiated an exit, and signed
\* the exit (the exit's valid).
VerifyExit(st, exit) ==
    /\ IsValidatorIndex(st, exit.validator_index)
    /\ exit.valid
    /\ ~ValidatorAt(st, exit.validator_index).exit_initiated

RECURSIVE InitiateExits(_, _, _)
InitiateExits(st, exits, k) ==
    IF k > Len(exits) THEN st
    ELSE InitiateExits(InitiateValidatorExit(st, exits[k].validator_index), exits, k + 1)

\* A variant that checks the length of the list after the exits.
ProcessExitsBoundAfterVerify(st, voluntary_exits) ==
    LET bad == InvalidIndices([k \in DOMAIN voluntary_exits |->
                                 VerifyExit(st, voluntary_exits[k])])
    IN  IF bad # {}
        THEN {Outcome(st, Err("exits", i, "Invalid")) : i \in bad}
        ELSE IF Len(voluntary_exits) > MaxVoluntaryExits
        THEN {Outcome(st, Err("exits", NoIndex, "MaxExitsExceeded"))}
        ELSE {Outcome(InitiateExits(st, voluntary_exits, 1), Ok)}

ProcessExits(st, voluntary_exits) ==
    IF Len(voluntary_exits) > MaxVoluntaryExits
    THEN {Outcome(st, Err("exits", NoIndex, "MaxExitsExceeded"))}
    ELSE LET bad == InvalidIndices([k \in DOMAIN voluntary_exits |->
                                      VerifyExit(st, voluntary_exits[k])])
         IN  IF bad # {}
             THEN {Outcome(st, Err("exits", i, "Invalid")) : i \in bad}
             ELSE {Outcome(InitiateExits(st, voluntary_exits, 1), Ok)}

(***************************************************************************)
(* process_transfers                                                       *)
(***************************************************************************)
\* verify_transfer: sender and recipient exist, the sender's balance covers
\* amount and fee, and the transfer is signed for this slot (its valid).
VerifyTransfer(st, transfer) ==
    /\ IsValidatorIndex(st, transfer.sender)
    /\ IsValidatorIndex(st, transfer.recipient)
    /\ transfer.valid
    /\ st.balances[transfer.sender + 1] >= transfer.amount + transfer.fee

\* execute_transfer from the k-th transfer on: checked arithmetic on the
\* balances of sender, recipient and proposer.
RECURSIVE ExecuteTransfers(_, _, _)
ExecuteTransfers(st, transfers, k) ==
    IF k > Len(transfers) THEN Outcome(st, Ok)
    ELSE LET t == transfers[k]
             proposer == BeaconProposerIndex(st, st.slot)
         IN  IF st.balances[t.sender + 1] < t.amount + t.fee
             THEN Outcome(st, Err("transfers", k - 1, "FromBalanceInsufficient"))
             ELSE LET st1 == [st EXCEPT !.balances[t.sender + 1] = @ - (t.amount + t.fee)]
                      st2 == [st1 EXCEPT !.balances[t.recipient + 1] = @ + t.amount]
                      st3 == [st2 EXCEPT !.balances[proposer + 1] = @ + t.fee]
                  IN  ExecuteTransfers(st3, transfers, k + 1)

ProcessTransfers(st, transfers) ==
    IF Len(transfers) > MaxTransfers
    THEN {Outcome(st, Err("transfers", NoIndex, "MaxTransfersExceed"))}
    ELSE LET bad == InvalidIndices([k \in DOMAIN transfers |->
                                      VerifyTransfer(st, transfers[k])])
         IN  IF bad # {}
             THEN {Outcome(st, Err("transfers", i, "Invalid")) : i \in bad}
             ELSE {ExecuteTransfers(st, transfers, 1)}

(***************************************************************************)
(* The inputs: what a block may carry.                                     *)
(***************************************************************************)
Eth1Counts == {0} \cup (NumValidators..(NumValidators + MaxDepositCount))
Eth1Votes == {Eth1Data(c, 0) : c \in Eth1Counts}

RandaoReveals == {[valid |-> TRUE, hash |-> 1], [valid |-> FALSE, hash |-> 1]}

ProposerSlashings == [proposer_index : 0..(NumValidators - 1), valid : BOOLEAN]

\* An attester slashing: two indexed attestations and whether their data
\* make a double or a surround vote.
AttesterSlashings ==
    {as \in [attestation_1 : [indices : {{0, 1}}, valid : BOOLEAN],
             attestation_2 : [indices : {{1}}, valid : BOOLEAN],
             slashable_data : BOOLEAN] :
        ~as.slashable_data => (as.attestation_1.valid /\ as.attestation_2.valid)}

AttestationsIn ==
    {att \in [data : [target_epoch : 0..1, slot : 0..1], valid : BOOLEAN] :
        ~att.valid => (att.data.target_epoch = 0 /\ att.data.slot = 0)}

DepositsIn ==
    {d \in [pubkey : {1, NumValidators + 1}, amount : {1},
            index : NumValidators..(NumValidators + 1),
            proof_valid : BOOLEAN, signature_valid : BOOLEAN] :
        ~d.proof_valid => (d.pubkey = 1 /\ d.index = NumValidators /\ d.signature_valid)}

\* A list of one object more than the protocol maximum of its step, every
\* object of it one the step would reject.
TooMany(obj, max) == [k \in 1..(max + 1) |-> obj]

VoluntaryExits == [validator_index : 0..(NumValidators - 1), valid : BOOLEAN]

TransfersIn ==
    {t \in [sender : 0..1, recipient : 0..1, amount : {2}, fee : {0}, valid : BOOLEAN] :
        t.sender # t.recipient}

(***************************************************************************)
(* per_block_processing_signature_optional, one action per sub-step.  A    *)
(* step that fails ends the call (the ? operator); the state keeps what    *)
(* the steps so far have written.                                          *)
(***************************************************************************)
PoolIdle == UNCHANGED poolVars
NetIdle == UNCHANGED netVars
HandshakeIdle == UNCHANGED hsVars
ForwardIdle == UNCHANGED fwdVars
HeadIdle == UNCHANGED headVars
ThreadsIdle == UNCHANGED threadVars
shardVars == <<shard_block, other_block, shard_roots>>
BuilderIdle == UNCHANGED builderVars
ShardIdle == UNCHANGED shardVars
ghostVars == <<ghost_tree, fh_pc, fh_start, fh_path>>
GhostIdle == UNCHANGED ghostVars
bodyVars == <<pool_body, body_calls, body_erased>>
BodyIdle == UNCHANGED bodyVars
slotVars == <<shard_state, chain_spec, slot_loop>>
SlotIdle == UNCHANGED slotVars
LateIdle == GhostIdle /\ BodyIdle /\ SlotIdle
ExtraIdle == ThreadsIdle /\ BuilderIdle /\ ShardIdle /\ LateIdle
RestIdle == HandshakeIdle /\ ForwardIdle /\ HeadIdle /\ ExtraIdle

\* The sub-steps in the order of per_block_processing_signature_optional.
StepOrder ==
    <<"header", "caches", "randao", "eth1_data", "proposer_slashings",
      "attester_slashings", "attestations", "deposits", "exits", "transfers">>

Position(step) == CHOOSE k \in 1..Len(StepOrder) : StepOrder[k] = step

\* A block whose fields from step next on hold operations: a proposer
\* slashing that would slash validator 0, and an invalid reveal, attestation,
\* deposit, exit and transfer.
WithLaterOperations(b, next) ==
    LET from(step) == next # "returned" /\ Position(next) <= Position(step)
    IN  [b EXCEPT
            !.randao_reveal = IF from("randao") THEN [valid |-> FALSE, hash |-> 1] ELSE @,
            !.proposer_slashings =
                IF from("proposer_slashings")
                THEN <<[proposer_index |-> 0, valid |-> TRUE]>> ELSE @,
            !.attestations =
                IF from("attestations")
                THEN <<[data |-> [target_epoch |-> 0, slot |-> 0], valid |-> FALSE]>> ELSE @,
            !.deposits =
                IF from("deposits")
                THEN <<[pubkey |-> 1, amount |-> 1, index |-> NumValidators,
                        proof_valid |-> FALSE, signature_valid |-> TRUE]>> ELSE @,
            !.voluntary_exits =
                IF from("exits") THEN <<[validator_index |-> 0, valid |-> FALSE]>> ELSE @,
            !.transfers =
                IF from("transfers")
                THEN <<[sender |-> 0, recipient |-> 1, amount |-> 2, fee |-> 0,
                        valid |-> FALSE]>> ELSE @]

\* A variant of the step that goes on to the next step after an error.
StepIgnoringFailure(b, outs, next) ==
    \E out \in outs :
        /\ block' = b
        /\ state' = out.state
        /\ result' = IF next # "returned" THEN Pending ELSE out.result
        /\ replay' = [state |-> out.state, result |-> result']
        /\ pc' = next
        /\ PoolIdle /\ NetIdle /\ RestIdle

\* One step on block b, of which the fields up to this step have been read:
\* out is what this evaluation gives, alt what another evaluation of the same
\* step on the same state and input gives.  When the step fails the call
\* returns (the ? operator) and the fields of the later steps stay unread:
\* they are empty or hold operations.
Step(b, outs, next) ==
    \E out \in outs, alt \in outs :
        /\ (alt.result.reason = "panic") = (out.result.reason = "panic")   \* one build
        /\ block' \in IF out.result.ok THEN {b} ELSE {b, WithLaterOperations(b, next)}
        /\ state' = out.state
        /\ result' = IF out.result.ok /\ next # "returned" THEN Pending ELSE out.result
        /\ replay' = [state |-> alt.state,
                      result |-> IF alt.result.ok /\ next # "returned"
                                 THEN Pending ELSE alt.result]
        /\ pc' = IF out.result.ok THEN next ELSE "returned"
        /\ PoolIdle /\ NetIdle /\ RestIdle

HeaderStep ==
    /\ pc = "idle"
    /\ nblocks < MaxBlocks
    /\ nblocks' = nblocks + 1
    /\ pre' = state
    /\ \E slot \in 0..MaxSlot,
          root \in {SignedRoot(state.latest_block_header), UnknownRoot},
          sig \in BOOLEAN :
            LET b == [UnreadBlock EXCEPT !.slot = slot, !.previous_block_root = root,
                                         !.signature_valid = sig]
            IN  Step(b, {ProcessBlockHeader(state, b, TRUE)}, "caches")

\* per_block_processing_without_verifying_block_signature: the same call with
\* should_verify_block_signature false.
HeaderStepWithoutVerifying ==
    /\ pc = "idle"
    /\ nblocks < MaxBlocks
    /\ nblocks' = nblocks + 1
    /\ pre' = state
    /\ \E slot \in 0..MaxSlot,
          root \in {SignedRoot(state.latest_block_header), UnknownRoot},
          sig \in BOOLEAN :
            LET b == [UnreadBlock EXCEPT !.slot = slot, !.previous_block_root = root,
                                         !.signature_valid = sig]
            IN  Step(b, {ProcessBlockHeader(state, b, FALSE)}, "caches")

CachesStep ==
    /\ pc = "caches"
    /\ UNCHANGED <<pre, nblocks>>
    /\ Step(block, {BuildCommitteeCaches(state)}, "randao")

RandaoStep ==
    /\ pc = "randao"
    /\ UNCHANGED <<pre, nblocks>>
    /\ \E reveal \in RandaoReveals :
        LET b == [block EXCEPT !.randao_reveal = reveal]
        IN  Step(b, {ProcessRandao(state, b)}, "eth1_data")

Eth1DataStep ==
    /\ pc = "eth1_data"
    /\ UNCHANGED <<pre, nblocks>>
    /\ \E eth1_data \in Eth1Votes :
        Step([block EXCEPT !.eth1_data = eth1_data],
             {ProcessEth1Data(state, eth1_data)}, "proposer_slashings")

ProposerSlashingsStep ==
    /\ pc = "proposer_slashings"
    /\ UNCHANGED <<pre, nblocks>>
    /\ \E list \in SeqsUpTo(ProposerSlashings, Room(block))
                    \cup {TooMany([proposer_index |-> 0, valid |-> FALSE],
                                  MaxProposerSlashings)} :
        Step([block EXCEPT !.proposer_slashings = list], ProcessProposerSlashings(state, list), "attester_slashings")

AttesterSlashingsStep ==
    /\ pc = "attester_slashings"
    /\ UNCHANGED <<pre, nblocks>>
    /\ \E list \in SeqsUpTo(AttesterSlashings, Room(block))
                    \cup {TooMany([attestation_1 |-> [indices |-> {0, 1}, valid |-> FALSE],
                      attestation_2 |-> [indices |-> {1}, valid |-> TRUE],
                      slashable_data |-> TRUE],
                                  MaxAttesterSlashings)} :
        Step([block EXCEPT !.attester_slashings = list], ProcessAttesterSlashings(state, list), "attestations")

AttestationsStep ==
    /\ pc = "attestations"
    /\ UNCHANGED <<pre, nblocks>>
    /\ \E list \in SeqsUpTo(AttestationsIn, Room(block))
                    \cup {TooMany([data |-> [target_epoch |-> 0, slot |-> 0], valid |-> FALSE],
                                  MaxAttestations)} :
        Step([block EXCEPT !.attestations = list], ProcessAttestations(state, list), "deposits")

DepositsStep ==
    /\ pc = "deposits"
    /\ UNCHANGED <<pre, nblocks>>
    /\ \E list \in SeqsUpTo(DepositsIn, Room(block)) :
        Step([block EXCEPT !.deposits = list], ProcessDeposits(state, list), "exits")

ExitsStep ==
    /\ pc = "exits"
    /\ UNCHANGED <<pre, nblocks>>
    /\ \E list \in SeqsUpTo(VoluntaryExits, Room(block))
                    \cup {TooMany([validator_index |-> 0, valid |-> FALSE],
                                  MaxVoluntaryExits)} :
        Step([block EXCEPT !.voluntary_exits = list], ProcessExits(state, list), "transfers")

TransfersStep ==
    /\ pc = "transfers"
    /\ UNCHANGED <<pre, nblocks>>
    /\ \E list \in SeqsUpTo(TransfersIn, Room(block))
                    \cup {TooMany([sender |-> 0, recipient |-> 1, amount |-> 2, fee |-> 0,
                      valid |-> FALSE],
                                  MaxTransfers)} :
        Step([block EXCEPT !.transfers = list], ProcessTransfers(state, list), "returned")

\* BeaconChain::process_block, the caller: it ran per_block_processing on a
\* clone of its state; it keeps the clone on Ok and drops it on Err.
ReturnToCaller ==
    /\ pc = "returned"
    /\ pc' = "idle"
    /\ state' = IF result.ok THEN state ELSE pre
    /\ UNCHANGED <<pre, block, result, replay, nblocks>>
    /\ PoolIdle /\ NetIdle /\ RestIdle

\* per_slot_processing, run by the caller between blocks: the slot advances,
\* the state root of the latest header is filled in, and at an epoch boundary
\* the current epoch's attestations become the previous epoch's.
PerSlotProcessing ==
    /\ pc = "idle"
    /\ state.slot < MaxSlot
    /\ state' = [state EXCEPT
            !.slot = @ + 1,
            !.latest_block_header.state_root = "filled",
            !.previous_epoch_attestations =
                IF (state.slot + 1) % SlotsPerEpoch = 0
                THEN state.current_epoch_attestations ELSE @,
            !.current_epoch_attestations =
                IF (state.slot + 1) % SlotsPerEpoch = 0 THEN <<>> ELSE @]
    /\ UNCHANGED <<pre, block, pc, result, replay, nblocks>>
    /\ PoolIdle /\ NetIdle /\ RestIdle

(***************************************************************************)
(* The shard operation pool.                                               *)
(***************************************************************************)
MaxInserts == 3         \* insert_attestation calls in one behaviour
CommitteeSize == 3      \* bits of an aggregation bitfield
MaxTargetSlot == 1      \* target slots of the attestation data run 0..MaxTargetSlot

AttestationDatas == [target_slot : 0..MaxTargetSlot, shard_block_root : {1}]

\* The aggregate signature: how many times each committee member's signature
\* has been added into it.
SignatureOf(bits) == [i \in 1..CommitteeSize |-> IF i \in bits THEN 1 ELSE 0]

\* The attestations given to the pool: signed by the members of the bitfield.
ShardAttestations ==
    {[data |-> d, aggregation_bitfield |-> bits, aggregate_signature |-> SignatureOf(bits)]
        : d \in AttestationDatas, bits \in SUBSET (1..CommitteeSize)}

\* AttestationId::from_data: the domain bytes (from the epoch and slot of the
\* data and the fork of the beacon state) and the tree hash of the data.
DomainBytes(epoch, slot) == <<epoch, slot>>
AttestationIdFromData(data) ==
    [domain_bytes |-> DomainBytes(data.target_slot \div SlotsPerEpoch, data.target_slot),
     data_root |-> data]

AttestationIds == {AttestationIdFromData(d) : d \in AttestationDatas}

\* ShardAttestation::signers_disjoint_from
SignersDisjointFrom(a, b) == a.aggregation_bitfield \cap b.aggregation_bitfield = {}

\* ShardAttestation::aggregate: union of the bitfields, sum of the signatures.
Aggregate(a, b) ==
    [a EXCEPT !.aggregation_bitfield = @ \cup b.aggregation_bitfield,
              !.aggregate_signature =
                  [i \in 1..CommitteeSize |-> @[i] + b.aggregate_signature[i]]]

\* A variant of the loop that forgets to set the flag when it aggregates.
RECURSIVE InsertLoopFlagUnset(_, _, _, _)
InsertLoopFlagUnset(existing, attestation, k, aggregated) ==
    IF k > Len(existing) THEN [bucket |-> existing, aggregated |-> aggregated]
    ELSE IF SignersDisjointFrom(existing[k], attestation)
    THEN InsertLoopFlagUnset([existing EXCEPT ![k] = Aggregate(@, attestation)],
                             attestation, k + 1, aggregated)
    ELSE IF existing[k] = attestation
    THEN InsertLoopFlagUnset(existing, attestation, k + 1, TRUE)
    ELSE InsertLoopFlagUnset(existing, attestation, k + 1, aggregated)

\* The loop over the bucket: the bucket after it, and the aggregated flag.
RECURSIVE InsertLoop(_, _, _, _)
InsertLoop(existing, attestation, k, aggregated) ==
    IF k > Len(existing) THEN [bucket |-> existing, aggregated |-> aggregated]
    ELSE IF SignersDisjointFrom(existing[k], attestation)
    THEN InsertLoop([existing EXCEPT ![k] = Aggregate(@, attestation)],
                    attestation, k + 1, TRUE)
    ELSE IF existing[k] = attestation
    THEN InsertLoop(existing, attestation, k + 1, TRUE)
    ELSE InsertLoop(existing, attestation, k + 1, aggregated)

\* A variant that never aggregates: it appends unless the attestation is
\* already in the bucket.
InsertAttestationNoAggregate(map, attestation) ==
    LET id == AttestationIdFromData(attestation.data)
    IN  IF \E k \in 1..Len(map[id]) : map[id][k] = attestation
        THEN map
        ELSE [map EXCEPT ![id] = Append(@, attestation)]

\* A variant that does not push the attestation that was not aggregated.
InsertAttestationNoPush(map, attestation) ==
    LET id == AttestationIdFromData(attestation.data)
    IN  IF map[id] = <<>>
        THEN [map EXCEPT ![id] = <<attestation>>]
        ELSE [map EXCEPT ![id] = InsertLoop(map[id], attestation, 1, FALSE).bucket]

\* OperationPool::insert_attestation: the map after the call.
InsertAttestation(map, attestation) ==
    LET id == AttestationIdFromData(attestation.data)
    IN  IF map[id] = <<>>
        THEN [map EXCEPT ![id] = <<attestation>>]
        ELSE LET loop == InsertLoop(map[id], attestation, 1, FALSE)
             IN  IF loop.aggregated
                 THEN [map EXCEPT ![id] = loop.bucket]
                 ELSE [map EXCEPT ![id] = Append(loop.bucket, attestation)]

\* OperationPool::num_attestations
NumAttestations(map) == SumLen(map, DOMAIN map)

\* The signing domain get_attestation looks for: that of the slot before the
\* shard state's.
AttestingDomain(slot) == DomainBytes((slot - 1) \div SlotsPerEpoch, slot - 1)

\* AttestationId::domain_bytes_match
DomainBytesMatch(id, domain_bytes) == id.domain_bytes = domain_bytes

\* The orders in which a HashMap may iterate over these keys.
IterationOrders(keys) ==
    {order \in [1..Cardinality(keys) -> keys] :
        \A i, j \in DOMAIN order : order[i] = order[j] => i = j}

\* flat_map: the entries of the buckets, bucket after bucket.
RECURSIVE FlatMap(_, _, _)
FlatMap(map, order, k) ==
    IF k > Len(order) THEN <<>> ELSE map[order[k]] \o FlatMap(map, order, k + 1)

NumSetBits(attestation) == Cardinality(attestation.aggregation_bitfield)

\* sort_by descending number of set bits, then the first element: the sort
\* is stable, so it is the first entry that has the most set bits.
FirstOfSorted(entries) ==
    LET most == CHOOSE n \in {NumSetBits(entries[k]) : k \in DOMAIN entries} :
                    \A k \in DOMAIN entries : NumSetBits(entries[k]) <= n
        first == CHOOSE k \in DOMAIN entries :
                    /\ NumSetBits(entries[k]) = most
                    /\ \A j \in 1..(k - 1) : NumSetBits(entries[j]) < most
    IN  entries[first]

\* A variant that returns the first entry as the map iterates, unsorted.
GetAttestationUnsorted(map, slot) ==
    LET keys == {id \in DOMAIN map : DomainBytesMatch(id, AttestingDomain(slot))}
    IN  {LET entries == FlatMap(map, order, 1)
         IN  IF entries = <<>> THEN <<>> ELSE <<entries[1]>>
            : order \in IterationOrders(keys)}

\* OperationPool::get_attestation for a shard state at this slot: what it
\* may return, by the order in which the map iterates.
GetAttestation(map, slot) ==
    LET keys == {id \in DOMAIN map : DomainBytesMatch(id, AttestingDomain(slot))}
    IN  {LET entries == FlatMap(map, order, 1)
         IN  IF entries = <<>> THEN <<>> ELSE <<FirstOfSorted(entries)>>
            : order \in IterationOrders(keys)}

\* A variant that keeps a bucket only when its first attestation is past
\* the finalized slot.
PruneAttestationsPastOnly(map, finalized_slot) ==
    [id \in DOMAIN map |->
        IF map[id] # <<>> /\ finalized_slot < map[id][1].data.target_slot
        THEN map[id] ELSE <<>>]

\* OperationPool::prune_attestations: retain on the first entry of a bucket.
PruneAttestations(map, finalized_slot) ==
    [id \in DOMAIN map |->
        IF map[id] # <<>> /\ finalized_slot <= map[id][1].data.target_slot
        THEN map[id] ELSE <<>>]

BlockIdle == UNCHANGED blockVars

PoolCall(op, slot, ret) == [op |-> op, slot |-> slot, before |-> attestations, ret |-> ret]

InsertAttestationCall ==
    /\ Len(inserted) < MaxInserts
    /\ \E attestation \in ShardAttestations :
        /\ attestations' = InsertAttestation(attestations, attestation)
        /\ inserted' = Append(inserted, attestation)
        /\ pool_call' = PoolCall("insert_attestation", attestation.data.target_slot, <<>>)
    /\ BlockIdle /\ NetIdle /\ RestIdle

\* get_attestation for a shard state at a slot 1..MaxTargetSlot + 2.
GetAttestationCall ==
    /\ \E slot \in 1..(MaxTargetSlot + 2) :
        \E ret \in GetAttestation(attestations, slot) :
            pool_call' = PoolCall("get_attestation", slot, ret)
    /\ UNCHANGED <<attestations, inserted>>
    /\ BlockIdle /\ NetIdle /\ RestIdle

\* prune_attestations for a finalized shard state at a slot 0..MaxTargetSlot + 1.
PruneAttestationsCall ==
    /\ \E slot \in 0..(MaxTargetSlot + 1) :
        /\ attestations' = PruneAttestations(attestations, slot)
        /\ pool_call' = PoolCall("prune_attestations", slot, <<>>)
    /\ UNCHANGED inserted
    /\ BlockIdle /\ NetIdle /\ RestIdle

\* The map holds a bucket for every key; an absent key is the empty bucket
\* (a vacant entry: the code never stores an empty bucket on insertion).
PoolInit ==
    /\ attestations = [id \in AttestationIds |-> <<>>]
    /\ inserted = <<>>
    /\ pool_call = [op |-> "none", slot |-> 0, before |-> attestations, ret |-> <<>>]

(***************************************************************************)
(* The beacon chain as the message processor reads it.  The canonical      *)
(* chain is the set of slots that have a block; the block of slot s has    *)
(* root s + 1, the zero hash is 0, and every canonical block is in the     *)
(* store.  The walk back from the head reaches the slots from `oldest` on, *)
(* the slot of a block: below it the iterator finds no earlier state and   *)
(* ends.                                                                   *)
(***************************************************************************)
MaxChainSlot == 3       \* the head is at most at this slot
Peers == {1, 2}
ZeroHash == 0
\* The root of a block of another chain: no block of the store has it.
ForeignRoot == MaxChainSlot + 2
LocalForkVersion == 1

BlockRootOf(slot) == slot + 1
BeaconBlockAt(slot) == [slot |-> slot, root |-> BlockRootOf(slot)]

MaxOf(S) == CHOOSE x \in S : \A y \in S : y <= x
HeadSlot(c) == MaxOf(c.slots)

\* The root the state's block_roots hold for a slot: that of the latest block
\* at or before it (a skipped slot repeats the root before it).
RootOfSlot(c, slot) == BlockRootOf(MaxOf({t \in c.slots : t <= slot}))

\* BeaconChain::rev_iter_block_roots: (root, slot) from the head down.
RevIterBlockRoots(c) ==
    [k \in 1..(HeadSlot(c) + 1 - c.oldest) |->
        [root |-> RootOfSlot(c, HeadSlot(c) + 1 - k), slot |-> HeadSlot(c) + 1 - k]]

None == [some |-> FALSE, value |-> 0]
Some(x) == [some |-> TRUE, value |-> x]

\* BeaconChain::root_at_slot
RootAtSlot(c, slot) ==
    IF \E k \in DOMAIN RevIterBlockRoots(c) : RevIterBlockRoots(c)[k].slot = slot
    THEN Some(RootOfSlot(c, slot))
    ELSE None

\* Store::get::<BeaconBlock> and Store::exists::<BeaconBlock>
StoreGet(c, root) ==
    IF \E t \in c.slots : BlockRootOf(t) = root
    THEN Some(BeaconBlockAt(root - 1))
    ELSE None
StoreExists(c, root) == StoreGet(c, root).some

StartSlot(epoch) == epoch * SlotsPerEpoch

\* status_message: the Status of the head.
StatusMessage(c) ==
    [fork_version |-> LocalForkVersion,
     finalized_root |-> IF c.finalized_epoch = 0 THEN ZeroHash
                        ELSE RootOfSlot(c, StartSlot(c.finalized_epoch)),
     finalized_epoch |-> c.finalized_epoch,
     head_root |-> BlockRootOf(HeadSlot(c)),
     head_slot |-> HeadSlot(c)]

Chains ==
    {[slots |-> {0} \cup later, finalized_epoch |-> e, oldest |-> o] :
        later \in SUBSET (1..MaxChainSlot), e \in 0..(MaxChainSlot \div SlotsPerEpoch),
        o \in 0..1}

ReachableChains ==
    {c \in Chains : StartSlot(c.finalized_epoch) <= HeadSlot(c) /\ c.oldest \in c.slots}

(***************************************************************************)
(* Messages.                                                               *)
(***************************************************************************)
\* BeaconBlock::as_ssz_bytes
AsSszBytes(b) == <<"ssz", b.slot, b.root>>

\* NetworkContext::send_rpc_request / send_rpc_response / send_rpc_event
RpcRequest(peer, request_id, rpc, body) ==
    [to |-> peer, event |-> "Request", id |-> request_id, rpc |-> rpc, body |-> <<body>>]
RpcResponse(peer, request_id, rpc, body) ==
    [to |-> peer, event |-> "Response", id |-> request_id, rpc |-> rpc, body |-> <<body>>]
NoBody(msg) == [msg EXCEPT !.body = <<>>]

\* NetworkContext::disconnect: a Goodbye request under the default id 0.
Disconnect(peer, reason) == RpcRequest(peer, 0, "Goodbye", reason)

AddPeer(peer, remote) == [msg |-> "AddPeer", peer |-> peer, body |-> <<remote>>]
SyncDisconnect(peer) == [msg |-> "Disconnect", peer |-> peer, body |-> <<>>]
UnknownBlock(peer, b) == [msg |-> "UnknownBlock", peer |-> peer, body |-> <<b>>]

\* The sync manager's peer set after it took the messages, in order.
RECURSIVE SyncManagerPeers(_, _)
SyncManagerPeers(peers, msgs) ==
    IF msgs = <<>> THEN peers
    ELSE LET m == Head(msgs)
             next == IF m.msg = "AddPeer" THEN peers \cup {m.peer}
                     ELSE IF m.msg = "Disconnect" THEN peers \ {m.peer}
                     ELSE peers
         IN  SyncManagerPeers(next, Tail(msgs))

NoHandler == [handler |-> "none", peer |-> 0, input |-> <<>>, ret |-> <<>>, log |-> ""]

(***************************************************************************)
(* MessageProcessor::process_status                                        *)
(***************************************************************************)
Handled(network, sync, log) == [network |-> network, sync |-> sync, log |-> log]

\* A variant whose different-finalized-chain test forgets the case of the
\* chain having no root at the slot.
ProcessStatusNoRootAccepted(c, peer_id, remote) ==
    LET local == StatusMessage(c)
        at == RootAtSlot(c, StartSlot(remote.finalized_epoch))
    IN  IF local.fork_version # remote.fork_version
        THEN Handled(<<Disconnect(peer_id, "IrrelevantNetwork")>>, <<>>, "network_id")
        ELSE IF /\ remote.finalized_epoch <= local.finalized_epoch
                /\ remote.finalized_root # ZeroHash
                /\ local.finalized_root # ZeroHash
                /\ at.some /\ at.value # remote.finalized_root
        THEN Handled(<<Disconnect(peer_id, "IrrelevantNetwork")>>, <<>>,
                     "different finalized chain")
        ELSE IF remote.finalized_epoch < local.finalized_epoch
        THEN Handled(<<>>, <<>>, "NaivePeer")
        ELSE IF StoreExists(c, remote.head_root)
        THEN Handled(<<>>, <<AddPeer(peer_id, remote)>>, "Peer with known chain found")
        ELSE Handled(<<>>, <<AddPeer(peer_id, remote)>>, "UsefulPeer")

\* A variant that also hands a peer with a lower finalized epoch to the sync
\* manager.
ProcessStatusAddsNaivePeer(c, peer_id, remote) ==
    LET local == StatusMessage(c)
    IN  IF local.fork_version # remote.fork_version
        THEN Handled(<<Disconnect(peer_id, "IrrelevantNetwork")>>, <<>>, "network_id")
        ELSE IF /\ remote.finalized_epoch <= local.finalized_epoch
                /\ remote.finalized_root # ZeroHash
                /\ local.finalized_root # ZeroHash
                /\ RootAtSlot(c, StartSlot(remote.finalized_epoch))
                     # Some(remote.finalized_root)
        THEN Handled(<<Disconnect(peer_id, "IrrelevantNetwork")>>, <<>>,
                     "different finalized chain")
        ELSE IF StoreExists(c, remote.head_root)
        THEN Handled(<<>>, <<AddPeer(peer_id, remote)>>, "Peer with known chain found")
        ELSE Handled(<<>>, <<AddPeer(peer_id, remote)>>, "UsefulPeer")

\* A variant that says Goodbye to a peer with a lower finalized epoch.
ProcessStatusNaiveGoodbye(c, peer_id, remote) ==
    LET local == StatusMessage(c)
    IN  IF local.fork_version # remote.fork_version
        THEN Handled(<<Disconnect(peer_id, "IrrelevantNetwork")>>, <<>>, "network_id")
        ELSE IF /\ remote.finalized_epoch <= local.finalized_epoch
                /\ remote.finalized_root # ZeroHash
                /\ local.finalized_root # ZeroHash
                /\ RootAtSlot(c, StartSlot(remote.finalized_epoch))
                     # Some(remote.finalized_root)
        THEN Handled(<<Disconnect(peer_id, "IrrelevantNetwork")>>, <<>>,
                     "different finalized chain")
        ELSE IF remote.finalized_epoch < local.finalized_epoch
        THEN Handled(<<Disconnect(peer_id, "IrrelevantNetwork")>>, <<>>, "NaivePeer")
        ELSE IF StoreExists(c, remote.head_root)
        THEN Handled(<<>>, <<AddPeer(peer_id, remote)>>, "Peer with known chain found")
        ELSE Handled(<<>>, <<AddPeer(peer_id, remote)>>, "UsefulPeer")

\* What process_status sends to the network and to the sync manager, and the
\* log line that names the peer's class.
ProcessStatus(c, peer_id, remote) ==
    LET local == StatusMessage(c)
    IN  IF local.fork_version # remote.fork_version
        THEN Handled(<<Disconnect(peer_id, "IrrelevantNetwork")>>, <<>>, "network_id")
        ELSE IF /\ remote.finalized_epoch <= local.finalized_epoch
                /\ remote.finalized_root # ZeroHash
                /\ local.finalized_root # ZeroHash
                /\ RootAtSlot(c, StartSlot(remote.finalized_epoch))
                     # Some(remote.finalized_root)
        THEN Handled(<<Disconnect(peer_id, "IrrelevantNetwork")>>, <<>>,
                     "different finalized chain")
        ELSE IF remote.finalized_epoch < local.finalized_epoch
        THEN Handled(<<>>, <<>>, "NaivePeer")
        ELSE IF StoreExists(c, remote.head_root)
        THEN Handled(<<>>, <<AddPeer(peer_id, remote)>>, "Peer with known chain found")
        ELSE Handled(<<>>, <<AddPeer(peer_id, remote)>>, "UsefulPeer")

\* The Status messages a peer may send.
RemoteStatuses ==
    [fork_version : {LocalForkVersion, LocalForkVersion + 1},
     finalized_root : {ZeroHash, ForeignRoot}
                        \cup {BlockRootOf(StartSlot(e)) : e \in 0..(MaxChainSlot \div SlotsPerEpoch)},
     finalized_epoch : 0..((MaxChainSlot \div SlotsPerEpoch) + 1),
     head_root : {BlockRootOf(0), ForeignRoot},
     head_slot : {0}]

\* A handler runs once the messages of the handler before it have been taken
\* off the two channels; it leaves what it sent, and what the sync manager
\* makes of it.
Ran(handler, peer_id, input, ret, out) ==
    /\ last = NoHandler
    /\ last' = [handler |-> handler, peer |-> peer_id, input |-> input, ret |-> ret,
                log |-> out.log]
    /\ network_send' = out.network
    /\ sync_send' = out.sync
    /\ sync_peers' = SyncManagerPeers(sync_peers, out.sync)
    /\ BlockIdle /\ PoolIdle /\ RestIdle

\* on_connect: sends our Status to the peer.
OnConnect ==
    \E peer_id \in Peers \ connected :
        /\ connected' = connected \cup {peer_id}
        /\ UNCHANGED chain
        /\ Ran("on_connect", peer_id, <<>>, <<>>,
               Handled(<<RpcRequest(peer_id, 0, "Status", StatusMessage(chain))>>, <<>>, ""))

\* on_disconnect: removes the peer from the sync manager.
OnDisconnect ==
    \E peer_id \in connected :
        /\ connected' = connected \ {peer_id}
        /\ UNCHANGED chain
        /\ Ran("on_disconnect", peer_id, <<>>, <<>>,
               Handled(<<>>, <<SyncDisconnect(peer_id)>>, ""))

\* on_status_request: says Status back, then processes the peer's Status.
OnStatusRequest ==
    \E peer_id \in connected, request_id \in {1}, status \in RemoteStatuses :
        LET out == ProcessStatus(chain, peer_id, status)
        IN  /\ UNCHANGED <<chain, connected>>
            /\ Ran("on_status_request", peer_id, <<request_id, status>>, <<>>,
                   [out EXCEPT !.network =
                       <<RpcResponse(peer_id, request_id, "Status", StatusMessage(chain))>> \o @])

\* on_status_response: processes the peer's Status.
OnStatusResponse ==
    \E peer_id \in connected, status \in RemoteStatuses :
        /\ UNCHANGED <<chain, connected>>
        /\ Ran("on_status_response", peer_id, <<status>>, <<>>,
               ProcessStatus(chain, peer_id, status))

(***************************************************************************)
(* MessageProcessor::on_blocks_by_range_request                            *)
(***************************************************************************)
Reverse(seq) == [k \in 1..Len(seq) |-> seq[Len(seq) + 1 - k]]

\* Iterator::take_while(|(_root, slot)| start_slot <= slot)
TakeWhile(seq, start_slot) ==
    LET passing == {n \in 0..Len(seq) : \A k \in 1..n : start_slot <= seq[k].slot}
    IN  SubSeq(seq, 1, MaxOf(passing))

\* Iterator::filter_map over Store::get: the blocks the store holds.
RECURSIVE LoadBlocks(_, _)
LoadBlocks(c, roots) ==
    IF roots = <<>> THEN <<>>
    ELSE LET got == StoreGet(c, Head(roots).root)
         IN  (IF got.some THEN <<got.value>> ELSE <<>>) \o LoadBlocks(c, Tail(roots))

\* Vec::dedup_by_key(|b| b.slot): of consecutive blocks of one slot the first stays.
RECURSIVE DedupBySlot(_)
DedupBySlot(blocks) ==
    IF Len(blocks) <= 1 THEN blocks
    ELSE LET rest == DedupBySlot(Tail(blocks))
         IN  IF Head(blocks).slot = Head(rest).slot
             THEN <<Head(blocks)>> \o Tail(rest)
             ELSE <<Head(blocks)>> \o rest

RECURSIVE RangeResponses(_, _, _)
RangeResponses(peer_id, request_id, blocks) ==
    IF blocks = <<>> THEN <<>>
    ELSE <<RpcResponse(peer_id, request_id, "BlocksByRange", AsSszBytes(Head(blocks)))>>
         \o RangeResponses(peer_id, request_id, Tail(blocks))

\* The blocks the handler answers with when the addition wraps around (a
\* build without overflow checks) or does not overflow.
BlocksByRange(c, req) ==
    LET in_range == SelectSeq(RevIterBlockRoots(c),
                        LAMBDA rs : /\ req.start_slot <= rs.slot
                                    /\ AddU64(req.start_slot, req.count) > rs.slot)
        taken == TakeWhile(in_range, req.start_slot)
        loaded == LoadBlocks(c, taken)
        blocks == SelectSeq(loaded, LAMBDA b : b.slot >= req.start_slot)
    IN  DedupBySlot(Reverse(blocks))

\* start_slot + count is evaluated (for an item with start_slot <= slot) and
\* overflows: a build with overflow checks panics there.
RangeAdditionOverflows(c, req) ==
    /\ req.start_slot <= HeadSlot(c)
    /\ req.start_slot + req.count >= U64Mod

BlocksByRangeRequests == [start_slot : 0..(U64Mod - 1), count : 0..(U64Mod - 1)]

OnBlocksByRangeRequest ==
    \E peer_id \in connected, request_id \in {1}, req \in BlocksByRangeRequests,
       overflow_checks \in BOOLEAN :
        /\ overflow_checks => RangeAdditionOverflows(chain, req)
        /\ UNCHANGED <<chain, connected>>
        /\ IF overflow_checks
           THEN Ran("on_blocks_by_range_request", peer_id, <<request_id, req>>, <<"panic">>,
                    Handled(<<>>, <<>>, ""))
           ELSE Ran("on_blocks_by_range_request", peer_id, <<request_id, req>>, <<>>,
                    Handled(RangeResponses(peer_id, request_id, BlocksByRange(chain, req))
                              \o <<NoBody(RpcResponse(peer_id, request_id, "BlocksByRange", 0))>>,
                            <<>>, ""))

(***************************************************************************)
(* MessageProcessor::on_blocks_by_root_request                             *)
(***************************************************************************)
MaxRoots == 2           \* roots in one BlocksByRoot request

\* A variant that gives up at the first root the store does not hold.
BlocksByRootStopAtUnknown(c, block_roots) ==
    LET known == {n \in 0..Len(block_roots) :
                    \A k \in 1..n : StoreGet(c, block_roots[k]).some}
    IN  [k \in 1..MaxOf(known) |-> StoreGet(c, block_roots[k]).value]

\* The loop over request.block_roots: the blocks it answers with.
RECURSIVE BlocksByRoot(_, _)
BlocksByRoot(c, block_roots) ==
    IF block_roots = <<>> THEN <<>>
    ELSE LET got == StoreGet(c, Head(block_roots))
         IN  (IF got.some THEN <<got.value>> ELSE <<>>) \o BlocksByRoot(c, Tail(block_roots))

RECURSIVE RootResponses(_, _, _)
RootResponses(peer_id, request_id, blocks) ==
    IF blocks = <<>> THEN <<>>
    ELSE <<RpcResponse(peer_id, request_id, "BlocksByRoot", AsSszBytes(Head(blocks)))>>
         \o RootResponses(peer_id, request_id, Tail(blocks))

BlocksByRootRequests ==
    SeqsUpTo({BlockRootOf(t) : t \in 0..MaxChainSlot} \cup {ForeignRoot}, MaxRoots)

OnBlocksByRootRequest ==
    \E peer_id \in connected, request_id \in {1}, block_roots \in BlocksByRootRequests :
        /\ UNCHANGED <<chain, connected>>
        /\ Ran("on_blocks_by_root_request", peer_id, <<request_id, block_roots>>, <<>>,
               Handled(RootResponses(peer_id, request_id, BlocksByRoot(chain, block_roots))
                         \o <<NoBody(RpcResponse(peer_id, request_id, "BlocksByRoot", 0))>>,
                       <<>>, ""))

(***************************************************************************)
(* MessageProcessor::on_block_gossip                                       *)
(***************************************************************************)
FUTURE_SLOT_TOLERANCE == 1
SHOULD_FORWARD_GOSSIP_BLOCK == TRUE
SHOULD_NOT_FORWARD_GOSSIP_BLOCK == FALSE

OutcomeOf(ok, kind, present_slot, block_slot) ==
    [ok |-> ok, kind |-> kind, present_slot |-> present_slot, block_slot |-> block_slot]

InvalidOutcomeKinds ==
    {"GenesisBlock", "WouldRevertFinalizedSlot", "StateRootMismatch",
     "PerBlockProcessingError"}

\* What BeaconChain::process_block may return for a block: Ok(outcome), or
\* Err(e) (ok = FALSE).  FutureSlot carries the clock's slot and the block's.
ProcessBlockResults(b) ==
    {OutcomeOf(TRUE, k, 0, 0) :
        k \in {"Processed", "ParentUnknown", "BlockIsAlreadyKnown"} \cup InvalidOutcomeKinds}
    \cup {OutcomeOf(TRUE, "FutureSlot", present, b.slot) : present \in 0..(b.slot - 1)}
    \cup {OutcomeOf(FALSE, "BeaconChainError", 0, 0)}

\* A variant that forwards every FutureSlot block.
GossipForwardAnyFutureSlot(res) ==
    /\ res.ok
    /\ res.kind \in {"Processed", "ParentUnknown", "FutureSlot", "BlockIsAlreadyKnown"}

\* The match of on_block_gossip: the value it returns.
GossipForward(res) ==
    IF ~res.ok THEN SHOULD_NOT_FORWARD_GOSSIP_BLOCK
    ELSE IF res.kind = "Processed" THEN SHOULD_FORWARD_GOSSIP_BLOCK
    ELSE IF res.kind = "ParentUnknown" THEN SHOULD_FORWARD_GOSSIP_BLOCK
    ELSE IF /\ res.kind = "FutureSlot"
            /\ AddU64(res.present_slot, FUTURE_SLOT_TOLERANCE) >= res.block_slot
    THEN SHOULD_FORWARD_GOSSIP_BLOCK
    ELSE IF res.kind = "BlockIsAlreadyKnown" THEN SHOULD_FORWARD_GOSSIP_BLOCK
    ELSE SHOULD_NOT_FORWARD_GOSSIP_BLOCK

\* BeaconChain::process_block's effect on the chain: a processed block past
\* the head becomes the head.
ChainAfter(c, b, res) ==
    IF res.ok /\ res.kind = "Processed" /\ b.slot > HeadSlot(c)
    THEN [c EXCEPT !.slots = @ \cup {b.slot}]
    ELSE c

\* A variant that tells the sync manager of every block it forwards.
GossipSyncOnEveryForward(peer_id, b, res) ==
    IF res.ok /\ res.kind \in {"Processed", "ParentUnknown", "BlockIsAlreadyKnown"}
    THEN <<UnknownBlock(peer_id, b)>>
    ELSE <<>>

\* The match of on_block_gossip: what it sends to the sync manager.
GossipSync(peer_id, b, res) ==
    IF res.ok /\ res.kind = "ParentUnknown"
    THEN <<UnknownBlock(peer_id, b)>>
    ELSE <<>>

OnBlockGossip ==
    \E peer_id \in connected, slot \in 1..MaxChainSlot :
        \E res \in ProcessBlockResults(BeaconBlockAt(slot)) :
            LET b == BeaconBlockAt(slot)
            IN  /\ chain' = ChainAfter(chain, b, res)
                /\ UNCHANGED connected
                /\ Ran("on_block_gossip", peer_id, <<b, res>>, <<GossipForward(res)>>,
                       Handled(<<>>, GossipSync(peer_id, b, res), ""))

\* The network service and the sync manager take the messages off their
\* channels.
Drain ==
    /\ last # NoHandler
    /\ last' = NoHandler
    /\ network_send' = <<>>
    /\ sync_send' = <<>>
    /\ UNCHANGED <<chain, connected, sync_peers>>
    /\ BlockIdle /\ PoolIdle /\ RestIdle

\* No handshake is under way.
NoEvent == [handler |-> "none", node |-> 0, peer |-> 0, id |-> 0, sent |-> <<>>]

HandshakeInit ==
    /\ nodes = [n \in Peers |-> [slots |-> {0}, finalized_epoch |-> 0, oldest |-> 0]]
    /\ wire = [n \in Peers |-> <<>>]
    /\ dialed = {}
    /\ status_count = 0
    /\ handled = NoEvent

ForwardInit ==
    /\ received = <<>>
    /\ sync_channel = <<>>
    /\ sync_alive = TRUE
    /\ sync_got = <<>>
    /\ dropped = <<>>

HeadInit ==
    /\ head = [slots |-> {0}, finalized_epoch |-> 0, oldest |-> 0]
    /\ sm_pc = "idle"
    /\ sm_state = head
    /\ sm_status = StatusMessage(head)
    /\ heads_seen = {}

NumThreads == 2         \* threads that call the pool at the same time

NotCalled == [op |-> "none", attestation |-> <<>>, slot |-> 0, pc |-> "idle",
              k |-> 0, aggregated |-> FALSE, ret |-> <<>>]

ThreadsInit ==
    /\ shared_pool = [id \in AttestationIds |-> <<>>]
    /\ lock = [writer |-> 0, readers |-> {}]
    /\ threads = [t \in 1..NumThreads |-> NotCalled]
    /\ first_pool = shared_pool
    /\ lock_order = <<>>

NoStep == [service |-> "none", ok |-> TRUE, started |-> FALSE,
           before |-> <<>>, after |-> <<>>]

\* ClientBuilder::new
BuilderInit ==
    /\ components = {}
    /\ exit_signals = <<>>
    /\ client_exit_signals = <<>>
    /\ holder = "builder"
    /\ tasks = <<>>
    /\ signals_dropped = {}
    /\ last_step = NoStep

\* ShardBlock::empty
EmptyShardBlock ==
    [slot |-> 0, shard |-> 0, parent_root |-> 0, beacon_block_root |-> 0,
     state_root |-> 0, body |-> <<>>, attestation |-> <<>>, signature |-> 0]

NoRoots == [computed |-> FALSE, block |-> <<>>, other |-> <<>>, header |-> <<>>]

ShardInit ==
    /\ shard_block = EmptyShardBlock
    /\ other_block = EmptyShardBlock
    /\ shard_roots = NoRoots

MaxNodes == 4           \* nodes of the reduced tree, named by their roots 1..MaxNodes
MaxVote == 1            \* balance attesting to one node directly

Nodes == 1..MaxNodes

\* A tree of one node and no vote.
GhostInit ==
    /\ ghost_tree = [parent |-> [n \in Nodes |-> 0], votes |-> [n \in Nodes |-> 0]]
    /\ fh_pc = "idle"
    /\ fh_start = 1
    /\ fh_path = <<>>

NumBodyThreads == 3     \* threads that call insert_body or get_body

NoBodyCall == [op |-> "none", pc |-> "idle", body |-> <<>>, ret |-> <<>>]

\* OperationPool::new: the body is empty.
BodyInit ==
    /\ pool_body = <<>>
    /\ body_calls = [t \in 1..NumBodyThreads |-> NoBodyCall]
    /\ body_erased = {}

MaxShardSlot == 5       \* shard slots run 0..MaxShardSlot
MaxSpecValue == 2       \* the constants of the ChainSpec run 1..MaxSpecValue

\* The ChainSpec constants that per_shard_slot_processing reads.
ChainSpecs ==
    [slots_per_epoch : 1..MaxSpecValue,
     shard_slots_per_beacon_slot : 1..MaxSpecValue,
     epochs_per_shard_period : 1..MaxSpecValue]

NoLoop == [pc |-> "idle", start |-> 0, block_slot |-> 0, calls |-> 0,
           at_period_boundary |-> 0, ret |-> "none"]

SlotInit ==
    /\ shard_state = [slot |-> 0, state_root_cached |-> FALSE]
    /\ chain_spec = [slots_per_epoch |-> 1, shard_slots_per_beacon_slot |-> 1,
                     epochs_per_shard_period |-> 1]
    /\ slot_loop = NoLoop

LateInit == GhostInit /\ BodyInit /\ SlotInit

ExtraInit == ThreadsInit /\ BuilderInit /\ ShardInit /\ LateInit

RestInit == HandshakeInit /\ ForwardInit /\ HeadInit /\ ExtraInit

NetInit ==
    /\ chain = [slots |-> {0}, finalized_epoch |-> 0, oldest |-> 0]
    /\ network_send = <<>>
    /\ sync_send = <<>>
    /\ sync_peers = {}
    /\ connected = {}
    /\ last = NoHandler

\* The states a call may start from: the genesis state with the eth1 data of
\* its deposit contract, possibly after an earlier block that cast an eth1
\* vote (for a later eth1 block, or for one of before the deposits) or slashed
\* validator 1.
EarlierVotes == {<<>>, <<Eth1Data(NumValidators + 1, 0)>>, <<Eth1Data(0, 0)>>}

StartStates ==
    {[SlashValidator(GenesisState(Eth1Data(c, 0)), 1) EXCEPT !.eth1_data_votes = votes]
        : c \in NumValidators..(NumValidators + MaxDepositCount), votes \in EarlierVotes}
    \cup
    {[GenesisState(Eth1Data(c, 0)) EXCEPT !.eth1_data_votes = votes]
        : c \in NumValidators..(NumValidators + MaxDepositCount), votes \in EarlierVotes}

BlockInit ==
    /\ state \in StartStates
    /\ pre = state
    /\ block = UnreadBlock
    /\ pc = "idle"
    /\ result = Pending
    /\ replay = Outcome(state, Pending)
    /\ nblocks = 0

InitBlock == BlockInit /\ PoolInit /\ NetInit /\ RestInit

NextBlock ==
    \/ HeaderStep
    \/ CachesStep
    \/ RandaoStep
    \/ Eth1DataStep
    \/ ProposerSlashingsStep
    \/ AttesterSlashingsStep
    \/ AttestationsStep
    \/ DepositsStep
    \/ ExitsStep
    \/ TransfersStep
    \/ ReturnToCaller
    \/ PerSlotProcessing

SpecBlock == InitBlock /\ [][NextBlock]_vars

\* A caller that processes its blocks with
\* per_block_processing_without_verifying_block_signature.
NextUnverified ==
    \/ HeaderStepWithoutVerifying
    \/ CachesStep
    \/ RandaoStep
    \/ Eth1DataStep
    \/ ProposerSlashingsStep
    \/ AttesterSlashingsStep
    \/ AttestationsStep
    \/ DepositsStep
    \/ ExitsStep
    \/ TransfersStep
    \/ ReturnToCaller
    \/ PerSlotProcessing

SpecUnverified == InitBlock /\ [][NextUnverified]_vars

BlockIdleInit ==
    /\ state = GenesisState(Eth1Data(NumValidators, 0))
    /\ pre = state
    /\ block = UnreadBlock
    /\ pc = "idle"
    /\ result = Pending
    /\ replay = Outcome(state, Pending)
    /\ nblocks = 0

InitPool == BlockIdleInit /\ PoolInit /\ NetInit /\ RestInit

NextPool ==
    \/ InsertAttestationCall

SpecPool == InitPool /\ [][NextPool]_vars

\* The pool with all three of its operations on the attestations.
NextPoolUse ==
    \/ InsertAttestationCall
    \/ GetAttestationCall
    \/ PruneAttestationsCall

SpecPoolUse == InitPool /\ [][NextPoolUse]_vars

\* The message processor starts on any chain the node may have built.
InitNet ==
    /\ BlockIdleInit /\ PoolInit /\ RestInit
    /\ chain \in ReachableChains
    /\ network_send = <<>>
    /\ sync_send = <<>>
    /\ sync_peers = {}
    /\ connected = {}
    /\ last = NoHandler

NextNet ==
    \/ OnConnect
    \/ OnDisconnect
    \/ OnStatusRequest
    \/ OnStatusResponse
    \/ OnBlocksByRangeRequest
    \/ OnBlocksByRootRequest
    \/ OnBlockGossip
    \/ Drain

SpecNet == InitNet /\ [][NextNet]_vars

(***************************************************************************)
(* The Status handshake of two nodes.  Each node runs a message processor  *)
(* on its own chain; what a handler sends to its peer is put on the peer's *)
(* wire, and the peer's RPC layer hands the events to its handlers in the  *)
(* order they were sent.                                                   *)
(***************************************************************************)
MaxRequestId == 1       \* the RPC layer hands a request over under an id 0..MaxRequestId
MaxStatusCount == 6     \* no Status is sent once this many have been sent

CoreIdle == BlockIdle /\ PoolIdle /\ NetIdle /\ ExtraIdle

OtherNode(n) == CHOOSE m \in Peers : m # n

IsStatus(m) == m.rpc = "Status"
NumStatus(msgs) == Len(SelectSeq(msgs, IsStatus))

\* A variant of on_status_response that says Status back.
OnStatusResponseSaysStatusBack(c, peer_id, status) ==
    <<RpcRequest(peer_id, 0, "Status", StatusMessage(c))>>
        \o ProcessStatus(c, peer_id, status).network

\* on_connect, on_status_request, on_status_response: what the handler of a
\* node on chain c sends to the network.
OnConnectSends(c, peer_id) == <<RpcRequest(peer_id, 0, "Status", StatusMessage(c))>>
OnStatusRequestSends(c, peer_id, request_id, status) ==
    <<RpcResponse(peer_id, request_id, "Status", StatusMessage(c))>>
        \o ProcessStatus(c, peer_id, status).network
OnStatusResponseSends(c, peer_id, status) == ProcessStatus(c, peer_id, status).network

\* A handler of node n has run for its peer and sent these messages; take
\* says whether it handled the first event of the node's wire.
HandshakeRan(n, handler, request_id, sent, take) ==
    /\ status_count + NumStatus(sent) <= MaxStatusCount
    /\ status_count' = status_count + NumStatus(sent)
    /\ wire' = [m \in Peers |->
                    IF m = OtherNode(n) THEN wire[m] \o sent
                    ELSE IF take THEN Tail(wire[m]) ELSE wire[m]]
    /\ handled' = [handler |-> handler, node |-> n, peer |-> OtherNode(n),
                   id |-> request_id, sent |-> sent]
    /\ UNCHANGED nodes
    /\ CoreIdle /\ ForwardIdle /\ HeadIdle

\* The connection comes up at node n.
DialPeer ==
    \E n \in Peers \ dialed :
        /\ dialed' = dialed \cup {n}
        /\ HandshakeRan(n, "on_connect", 0, OnConnectSends(nodes[n], OtherNode(n)), FALSE)

\* Node n is handed the first event of its wire.
IsEvent(n, event, rpc) ==
    /\ wire[n] # <<>>
    /\ Head(wire[n]).event = event
    /\ Head(wire[n]).rpc = rpc

ReceiveStatusRequest ==
    \E n \in Peers, request_id \in 0..MaxRequestId :
        /\ IsEvent(n, "Request", "Status")
        /\ UNCHANGED dialed
        /\ HandshakeRan(n, "on_status_request", request_id,
                        OnStatusRequestSends(nodes[n], OtherNode(n), request_id,
                                             Head(wire[n]).body[1]),
                        TRUE)

ReceiveStatusResponse ==
    \E n \in Peers :
        /\ IsEvent(n, "Response", "Status")
        /\ UNCHANGED dialed
        /\ HandshakeRan(n, "on_status_response", Head(wire[n]).id,
                        OnStatusResponseSends(nodes[n], OtherNode(n), Head(wire[n]).body[1]),
                        TRUE)

\* A Goodbye is not for the message processor: it sends nothing.
ReceiveGoodbye ==
    \E n \in Peers :
        /\ IsEvent(n, "Request", "Goodbye")
        /\ UNCHANGED dialed
        /\ HandshakeRan(n, "goodbye", Head(wire[n]).id, <<>>, TRUE)

InitHandshake ==
    /\ BlockIdleInit /\ PoolInit /\ NetInit /\ ForwardInit /\ HeadInit /\ ExtraInit
    /\ nodes \in [Peers -> ReachableChains]
    /\ wire = [n \in Peers |-> <<>>]
    /\ dialed = {}
    /\ status_count = 0
    /\ handled = NoEvent

NextHandshake ==
    \/ DialPeer
    \/ ReceiveStatusRequest
    \/ ReceiveStatusResponse
    \/ ReceiveGoodbye

\* The connection comes up at both nodes, and an event on a wire is handed
\* to its handler.
SpecHandshake == InitHandshake /\ [][NextHandshake]_vars /\ WF_vars(NextHandshake)

(***************************************************************************)
(* The channel to the sync manager: an unbounded mpsc channel.  try_send   *)
(* puts the message at the end of the queue, and fails once the receiving  *)
(* half is gone; the sync manager takes the messages oldest first.         *)
(***************************************************************************)
MaxChunks == 3          \* messages handed to send_to_sync in one behaviour

BlocksByRangeResponse(peer_id, request_id, beacon_block) ==
    [msg |-> "BlocksByRangeResponse", peer |-> peer_id, body |-> <<request_id, beacon_block>>]
BlocksByRootResponse(peer_id, request_id, beacon_block) ==
    [msg |-> "BlocksByRootResponse", peer |-> peer_id, body |-> <<request_id, beacon_block>>]

\* The chunks a peer may stream: blocks, and the None that ends the stream.
Chunks == {None} \cup {Some(BeaconBlockAt(t)) : t \in 0..1}

\* A variant of the channel that hands the newest message over first.
SendToSyncNewestFirst(channel, alive, message) ==
    IF alive
    THEN [channel |-> <<message>> \o channel, dropped |-> <<>>]
    ELSE [channel |-> channel, dropped |-> <<message>>]

\* send_to_sync: try_send, and a warning when it fails.
SendToSync(channel, alive, message) ==
    IF alive
    THEN [channel |-> Append(channel, message), dropped |-> <<>>]
    ELSE [channel |-> channel, dropped |-> <<message>>]

Forward(message) ==
    LET sent == SendToSync(sync_channel, sync_alive, message)
    IN  /\ Len(received) < MaxChunks
        /\ received' = Append(received, message)
        /\ sync_channel' = sent.channel
        /\ dropped' = dropped \o sent.dropped
        /\ UNCHANGED <<sync_alive, sync_got>>
        /\ CoreIdle /\ HandshakeIdle /\ HeadIdle

OnBlocksByRangeResponse ==
    \E peer_id \in Peers, request_id \in 0..MaxRequestId, beacon_block \in Chunks :
        Forward(BlocksByRangeResponse(peer_id, request_id, beacon_block))

OnBlocksByRootResponse ==
    \E peer_id \in Peers, request_id \in 0..MaxRequestId, beacon_block \in Chunks :
        Forward(BlocksByRootResponse(peer_id, request_id, beacon_block))

\* on_block_gossip of a block whose parent is unknown.
OnBlockGossipParentUnknown ==
    \E peer_id \in Peers :
        Forward(UnknownBlock(peer_id, BeaconBlockAt(1)))

\* The sync manager takes the oldest message of the channel.
SyncManagerTakes ==
    /\ sync_alive
    /\ sync_channel # <<>>
    /\ sync_got' = Append(sync_got, Head(sync_channel))
    /\ sync_channel' = Tail(sync_channel)
    /\ UNCHANGED <<received, sync_alive, dropped>>
    /\ CoreIdle /\ HandshakeIdle /\ HeadIdle

\* The sync manager's task ends and the receiving half is dropped, with the
\* messages still in the channel.
SyncManagerEnds ==
    /\ sync_alive
    /\ sync_alive' = FALSE
    /\ UNCHANGED <<received, sync_channel, sync_got, dropped>>
    /\ CoreIdle /\ HandshakeIdle /\ HeadIdle

InitForward ==
    /\ BlockIdleInit /\ PoolInit /\ NetInit /\ HandshakeInit /\ ForwardInit /\ HeadInit
    /\ ExtraInit

NextForward ==
    \/ OnBlocksByRangeResponse
    \/ OnBlocksByRootResponse
    \/ OnBlockGossipParentUnknown
    \/ SyncManagerTakes
    \/ SyncManagerEnds

SpecForward == InitForward /\ [][NextForward]_vars

(***************************************************************************)
(* status_message while another thread imports blocks.  BeaconChain::head  *)
(* hands out the current (block, state) pair; process_block replaces the   *)
(* pair when the head changes.                                             *)
(***************************************************************************)
\* status_message: the beacon_state is that of the head of the first call of
\* head(), the beacon_block_root that of the head of the second call.
StatusMessageOf(state_head, root_head) ==
    [StatusMessage(state_head) EXCEPT !.head_root = BlockRootOf(HeadSlot(root_head))]

\* let state = &beacon_chain.head().beacon_state
ReadHeadState ==
    /\ sm_pc = "idle"
    /\ sm_pc' = "state_read"
    /\ sm_state' = head
    /\ heads_seen' = {head}
    /\ UNCHANGED <<head, sm_status>>
    /\ CoreIdle /\ HandshakeIdle /\ ForwardIdle

\* the struct literal, with its second call of head()
BuildStatusMessage ==
    /\ sm_pc = "state_read"
    /\ sm_pc' = "built"
    /\ sm_status' = StatusMessageOf(sm_state, head)
    /\ UNCHANGED <<head, sm_state, heads_seen>>
    /\ CoreIdle /\ HandshakeIdle /\ ForwardIdle

\* status_message has returned; the next call may start.
StatusMessageReturned ==
    /\ sm_pc = "built"
    /\ sm_pc' = "idle"
    /\ UNCHANGED <<head, sm_state, sm_status, heads_seen>>
    /\ CoreIdle /\ HandshakeIdle /\ ForwardIdle

\* The chains an imported block may make of chain c: a block at a later slot
\* is the new head, and the finalized epoch may advance.
NextHeads(c) ==
    {d \in ReachableChains :
        /\ d.oldest = c.oldest
        /\ d.finalized_epoch >= c.finalized_epoch
        /\ \E t \in (HeadSlot(c) + 1)..MaxChainSlot : d.slots = c.slots \cup {t}}

\* process_block on another thread replaces the head.
UpdateHead ==
    /\ \E d \in NextHeads(head) :
        /\ head' = d
        /\ heads_seen' = IF sm_pc = "state_read" THEN heads_seen \cup {d} ELSE heads_seen
    /\ UNCHANGED <<sm_pc, sm_state, sm_status>>
    /\ CoreIdle /\ HandshakeIdle /\ ForwardIdle

InitHead ==
    /\ BlockIdleInit /\ PoolInit /\ NetInit /\ HandshakeInit /\ ForwardInit /\ ExtraInit
    /\ head \in ReachableChains
    /\ sm_pc = "idle"
    /\ sm_state = head
    /\ sm_status = StatusMessage(head)
    /\ heads_seen = {}

NextHead ==
    \/ ReadHeadState
    \/ BuildStatusMessage
    \/ StatusMessageReturned
    \/ UpdateHead

SpecHead == InitHead /\ [][NextHead]_vars

(***************************************************************************)
(* Threads that call insert_attestation, get_attestation and               *)
(* prune_attestations on one pool.  Every call takes the RwLock of the map *)
(* before it reads or writes it and holds it until it returns; the loop of *)
(* insert_attestation works on the bucket in place, one entry at a step.   *)
(***************************************************************************)
OldIdle ==
    BlockIdle /\ PoolIdle /\ NetIdle /\ HandshakeIdle /\ ForwardIdle /\ HeadIdle
OldInit ==
    BlockIdleInit /\ PoolInit /\ NetInit /\ HandshakeInit /\ ForwardInit /\ HeadInit

NotThreadsIdle == OldIdle /\ BuilderIdle /\ ShardIdle /\ LateIdle
NotBuilderIdle == OldIdle /\ ThreadsIdle /\ ShardIdle /\ LateIdle
NotShardIdle == OldIdle /\ ThreadsIdle /\ BuilderIdle /\ LateIdle
EarlierIdle == OldIdle /\ ThreadsIdle /\ BuilderIdle /\ ShardIdle
EarlierInit == OldInit /\ ThreadsInit /\ BuilderInit /\ ShardInit
NotGhostIdle == EarlierIdle /\ BodyIdle /\ SlotIdle
NotBodyIdle == EarlierIdle /\ GhostIdle /\ SlotIdle
NotSlotIdle == EarlierIdle /\ GhostIdle /\ BodyIdle

\* The attestations the threads insert: one data, every bitfield.
ThreadAttestations == {a \in ShardAttestations : a.data.target_slot = MaxTargetSlot}

\* The calls a thread may make.
PoolCalls ==
    {[NotCalled EXCEPT !.op = "insert_attestation", !.attestation = a, !.pc = "called"]
        : a \in ThreadAttestations}
    \cup {[NotCalled EXCEPT !.op = "get_attestation", !.slot = MaxTargetSlot + 1,
                            !.pc = "called"]}
    \cup {[NotCalled EXCEPT !.op = "prune_attestations", !.slot = slot, !.pc = "called"]
            : slot \in MaxTargetSlot..(MaxTargetSlot + 1)}

\* The maps the calls may find: the pool after up to two inserts.
EmptyPool == [id \in AttestationIds |-> <<>>]
FirstPools ==
    {EmptyPool} \cup {InsertAttestation(InsertAttestation(EmptyPool, a), b)
                        : a \in ThreadAttestations, b \in ThreadAttestations}

\* A variant of the lock that lets a reader in beside a writer.
CanReadBesideWriter(l) == TRUE

\* RwLock::read and RwLock::write: when the lock can be taken.
CanRead(l) == l.writer = 0
CanWrite(l) == l.writer = 0 /\ l.readers = {}

\* One iteration of the loop of insert_attestation, on entry k.
LoopIteration(existing, attestation, k, aggregated) ==
    IF SignersDisjointFrom(existing[k], attestation)
    THEN [bucket |-> [existing EXCEPT ![k] = Aggregate(@, attestation)], aggregated |-> TRUE]
    ELSE IF existing[k] = attestation
    THEN [bucket |-> existing, aggregated |-> TRUE]
    ELSE [bucket |-> existing, aggregated |-> aggregated]

\* A thread calls the pool.
CallPool ==
    /\ \E t \in 1..NumThreads, call \in PoolCalls :
        /\ threads[t].pc = "idle"
        /\ threads' = [threads EXCEPT ![t] = call]
    /\ UNCHANGED <<shared_pool, lock, first_pool, lock_order>>
    /\ NotThreadsIdle

\* self.attestations.write() of insert_attestation and prune_attestations
TakeWriteLock ==
    /\ \E t \in 1..NumThreads :
        /\ threads[t].pc = "called"
        /\ threads[t].op \in {"insert_attestation", "prune_attestations"}
        /\ CanWrite(lock)
        /\ lock' = [lock EXCEPT !.writer = t]
        /\ threads' = [threads EXCEPT ![t].pc = "locked", ![t].k = 1]
        /\ lock_order' = Append(lock_order, t)
    /\ UNCHANGED <<shared_pool, first_pool>>
    /\ NotThreadsIdle

\* self.attestations.read() of get_attestation
TakeReadLock ==
    /\ \E t \in 1..NumThreads :
        /\ threads[t].pc = "called"
        /\ threads[t].op = "get_attestation"
        /\ CanRead(lock)
        /\ lock' = [lock EXCEPT !.readers = @ \cup {t}]
        /\ threads' = [threads EXCEPT ![t].pc = "locked"]
        /\ lock_order' = Append(lock_order, t)
    /\ UNCHANGED <<shared_pool, first_pool>>
    /\ NotThreadsIdle

\* The thread returns and its guard is dropped.
Unlocked(l, t) == [writer |-> IF l.writer = t THEN 0 ELSE l.writer, readers |-> l.readers \ {t}]

\* insert_attestation under the lock: the vacant entry, one iteration of the
\* loop, or the push after the loop.
InsertStep ==
    /\ \E t \in 1..NumThreads :
        LET th == threads[t]
            id == AttestationIdFromData(th.attestation.data)
            existing == shared_pool[id]
        IN  /\ th.pc = "locked"
            /\ th.op = "insert_attestation"
            /\ IF existing = <<>>
               THEN /\ shared_pool' = [shared_pool EXCEPT ![id] = <<th.attestation>>]
                    /\ threads' = [threads EXCEPT ![t].pc = "done"]
                    /\ lock' = Unlocked(lock, t)
               ELSE IF th.k <= Len(existing)
               THEN LET it == LoopIteration(existing, th.attestation, th.k, th.aggregated)
                    IN  /\ shared_pool' = [shared_pool EXCEPT ![id] = it.bucket]
                        /\ threads' = [threads EXCEPT ![t].k = @ + 1,
                                                      ![t].aggregated = it.aggregated]
                        /\ UNCHANGED lock
               ELSE /\ shared_pool' = IF th.aggregated THEN shared_pool
                                      ELSE [shared_pool EXCEPT ![id] = Append(@, th.attestation)]
                    /\ threads' = [threads EXCEPT ![t].pc = "done"]
                    /\ lock' = Unlocked(lock, t)
    /\ UNCHANGED <<first_pool, lock_order>>
    /\ NotThreadsIdle

\* get_attestation under the lock.
GetStep ==
    /\ \E t \in 1..NumThreads :
        /\ threads[t].pc = "locked"
        /\ threads[t].op = "get_attestation"
        /\ \E ret \in GetAttestation(shared_pool, threads[t].slot) :
            threads' = [threads EXCEPT ![t].pc = "done", ![t].ret = ret]
        /\ lock' = Unlocked(lock, t)
    /\ UNCHANGED <<shared_pool, first_pool, lock_order>>
    /\ NotThreadsIdle

\* prune_attestations under the lock.
PruneStep ==
    /\ \E t \in 1..NumThreads :
        /\ threads[t].pc = "locked"
        /\ threads[t].op = "prune_attestations"
        /\ shared_pool' = PruneAttestations(shared_pool, threads[t].slot)
        /\ threads' = [threads EXCEPT ![t].pc = "done"]
        /\ lock' = Unlocked(lock, t)
    /\ UNCHANGED <<first_pool, lock_order>>
    /\ NotThreadsIdle

InitThreads ==
    /\ OldInit /\ BuilderInit /\ ShardInit /\ LateInit
    /\ shared_pool \in FirstPools
    /\ lock = [writer |-> 0, readers |-> {}]
    /\ threads = [t \in 1..NumThreads |-> NotCalled]
    /\ first_pool = shared_pool
    /\ lock_order = <<>>

NextThreads ==
    \/ CallPool
    \/ TakeWriteLock
    \/ TakeReadLock
    \/ InsertStep
    \/ GetStep
    \/ PruneStep

SpecThreads == InitThreads /\ [][NextThreads]_vars

(***************************************************************************)
(* The client builder.  Every step takes the builder by value and returns  *)
(* it in Ok, or an Err that drops it; a step that starts a service makes   *)
(* an exit signal, pushes it onto exit_signals and spawns the task of the  *)
(* service with the other end of the signal.                               *)
(***************************************************************************)
MaxServices == 2        \* services started on one builder
MaxTicks == 2           \* ticks of one task

Components == {"runtime_context", "beacon_chain", "libp2p_network", "chain_spec",
               "beacon_chain_builder", "store"}

Services == {"grpc_server", "http_server", "peer_count_notifier", "slot_notifier",
             "websocket_event_handler", "caching_eth1_backend"}

\* The services whose task is an interval of the builder's own.
Notifiers == {"peer_count_notifier", "slot_notifier"}

\* The fields a step asks for with ok_or_else(..)?.
Requires(service) ==
    CASE service = "grpc_server" -> {"beacon_chain", "runtime_context", "libp2p_network"}
      [] service = "http_server" -> {"beacon_chain", "runtime_context", "libp2p_network"}
      [] service = "peer_count_notifier" -> {"runtime_context", "libp2p_network"}
      [] service = "slot_notifier" -> {"runtime_context", "beacon_chain", "chain_spec"}
      [] service = "websocket_event_handler" -> {"runtime_context"}
      [] service = "caching_eth1_backend" ->
            {"runtime_context", "beacon_chain_builder", "store"}

\* The steps that may fail after their fields were found: start_server(..)?
\* of the HTTP and WebSocket servers, duration_to_next_slot() of the slot
\* notifier.
MayFailLater(service) ==
    service \in {"http_server", "slot_notifier", "websocket_event_handler"}

\* A variant of the push that leaves the list as it was.
WithoutSignal(signals, signal) == signals

\* self.exit_signals.push(exit_signal)
WithSignal(signals, signal) == Append(signals, signal)

\* A setter of the builder fills a field.
Provide ==
    /\ holder = "builder"
    /\ \E c \in Components \ components : components' = components \cup {c}
    /\ UNCHANGED <<exit_signals, client_exit_signals, holder, tasks, signals_dropped,
                   last_step>>
    /\ NotBuilderIdle

\* A step that starts a service and returns Ok(self).
StartService ==
    /\ holder = "builder"
    /\ Len(tasks) < MaxServices
    /\ \E service \in Services :
        /\ Requires(service) \subseteq components
        /\ LET signal == Len(tasks) + 1
               after == WithSignal(exit_signals, signal)
           IN  /\ exit_signals' = after
               /\ tasks' = Append(tasks, [service |-> service, signal |-> signal,
                                          ticks |-> 0, ended |-> FALSE])
               /\ last_step' = [service |-> service, ok |-> TRUE, started |-> TRUE,
                                before |-> exit_signals, after |-> after]
    /\ UNCHANGED <<components, client_exit_signals, holder, signals_dropped>>
    /\ NotBuilderIdle

\* websocket_event_handler with config.enabled false: a dummy sender, no
\* server and no signal.
WebSocketDisabled ==
    /\ holder = "builder"
    /\ Requires("websocket_event_handler") \subseteq components
    /\ last_step' = [service |-> "websocket_event_handler", ok |-> TRUE,
                     started |-> FALSE, before |-> exit_signals, after |-> exit_signals]
    /\ UNCHANGED <<components, exit_signals, client_exit_signals, holder, tasks,
                   signals_dropped>>
    /\ NotBuilderIdle

\* A step returns Err: the builder it took is dropped, and its signals with it.
StepFails ==
    /\ holder = "builder"
    /\ \E service \in Services :
        /\ \/ ~(Requires(service) \subseteq components)
           \/ MayFailLater(service)
        /\ last_step' = [service |-> service, ok |-> FALSE, started |-> FALSE,
                         before |-> exit_signals, after |-> exit_signals]
    /\ holder' = "nobody"
    /\ signals_dropped' = signals_dropped \cup {exit_signals[k] : k \in DOMAIN exit_signals}
    /\ exit_signals' = <<>>
    /\ UNCHANGED <<components, client_exit_signals, tasks>>
    /\ NotBuilderIdle

\* ClientBuilder::build
Build ==
    /\ holder = "builder"
    /\ holder' = "client"
    /\ client_exit_signals' = exit_signals
    /\ exit_signals' = <<>>
    /\ UNCHANGED <<components, tasks, signals_dropped, last_step>>
    /\ NotBuilderIdle

\* The client is dropped.
DropClient ==
    /\ holder = "client"
    /\ holder' = "nobody"
    /\ signals_dropped' =
            signals_dropped \cup {client_exit_signals[k] : k \in DOMAIN client_exit_signals}
    /\ client_exit_signals' = <<>>
    /\ UNCHANGED <<components, exit_signals, tasks, last_step>>
    /\ NotBuilderIdle

\* exit.until(interval_future): the exit is looked at before the interval.
Until(task) ==
    IF task.signal \in signals_dropped THEN [task EXCEPT !.ended = TRUE]
    ELSE [task EXCEPT !.ticks = @ + 1]

\* The executor polls the task of a notifier.
NotifierTick ==
    /\ \E i \in DOMAIN tasks :
        /\ tasks[i].service \in Notifiers
        /\ ~tasks[i].ended
        /\ tasks[i].ticks < MaxTicks \/ tasks[i].signal \in signals_dropped
        /\ tasks' = [tasks EXCEPT ![i] = Until(@)]
    /\ UNCHANGED <<components, exit_signals, client_exit_signals, holder, signals_dropped,
                   last_step>>
    /\ NotBuilderIdle

\* The executor polls the task of a server or of the eth1 poller.
ServerTick ==
    /\ \E i \in DOMAIN tasks :
        /\ tasks[i].service \notin Notifiers
        /\ ~tasks[i].ended
        /\ tasks[i].ticks < MaxTicks \/ tasks[i].signal \in signals_dropped
        /\ tasks' = [tasks EXCEPT ![i] = Until(@)]
    /\ UNCHANGED <<components, exit_signals, client_exit_signals, holder, signals_dropped,
                   last_step>>
    /\ NotBuilderIdle

InitBuilder == OldInit /\ ThreadsInit /\ BuilderInit /\ ShardInit /\ LateInit

NextBuilder ==
    \/ Provide
    \/ StartService
    \/ WebSocketDisabled
    \/ StepFails
    \/ Build
    \/ DropClient
    \/ NotifierTick
    \/ ServerTick

SpecBuilder == InitBuilder /\ [][NextBuilder]_vars

(***************************************************************************)
(* Shard blocks, their headers and their canonical roots.  The signed root *)
(* of a struct is the hash of the tree hash roots of its fields, in the    *)
(* order the struct declares them, the fields marked skip_hashing left     *)
(* out; the hash is collision resistant: it is one to one on what it is    *)
(* given.                                                                  *)
(***************************************************************************)
MaxBodyLen == 1         \* bytes of a shard block body

\* struct ShardBlock and struct ShardBlockHeader: the fields as declared.
ShardBlockFields ==
    <<"slot", "shard", "parent_root", "beacon_block_root", "state_root", "body",
      "attestation", "signature">>
ShardBlockHeaderFields ==
    <<"slot", "shard", "parent_root", "beacon_block_root", "state_root", "body",
      "attestation", "signature">>

\* A variant of the struct with no field marked.
NothingSkipped == {}

\* #[signed_root(skip_hashing)]
SkipHashing == {"signature"}

\* The hash function: collision resistant.
Hash(preimage) == <<"hash", preimage>>

\* TreeHash::tree_hash_root of a field: a basic value is its own chunk, a
\* list is hashed with its length.
TreeHashRoot(field, value) ==
    IF field \in {"body", "attestation"} THEN Hash(<<value, Len(value)>>) ELSE value

RECURSIVE HashedLeaves(_, _, _)
HashedLeaves(object, fields, k) ==
    IF k > Len(fields) THEN <<>>
    ELSE (IF fields[k] \in SkipHashing THEN <<>>
          ELSE <<TreeHashRoot(fields[k], object[fields[k]])>>)
         \o HashedLeaves(object, fields, k + 1)

\* SignedRoot::signed_root, as derived for a struct with these fields
SignedRootOf(object, fields) == Hash(HashedLeaves(object, fields, 1))

\* ShardBlock::canonical_root
CanonicalRoot(b) == SignedRootOf(b, ShardBlockFields)

\* ShardBlockHeader::canonical_root
HeaderCanonicalRoot(header) == SignedRootOf(header, ShardBlockHeaderFields)

\* ShardBlock::block_header
BlockHeader(b) ==
    [shard |-> b.shard, slot |-> b.slot, beacon_block_root |-> b.beacon_block_root,
     parent_root |-> b.parent_root, state_root |-> b.state_root, body |-> b.body,
     attestation |-> b.attestation, signature |-> b.signature]

\* The shard blocks of the model.
ShardBlocks ==
    [slot : 0..1, shard : 0..1, parent_root : 0..1,
     beacon_block_root : 0..1, state_root : 0..1,
     body : {<<>>} \cup {[k \in 1..n |-> 0] : n \in 1..MaxBodyLen}
                  \cup {[k \in 1..n |-> 1] : n \in 1..MaxBodyLen},
     attestation : {<<>>} \cup {<<a>> : a \in {x \in ShardAttestations :
                                    x.aggregation_bitfield = 1..CommitteeSize}},
     signature : 0..1]

\* The canonical roots of the two blocks and of the header of the first are
\* computed.
ComputeCanonicalRoots ==
    /\ ~shard_roots.computed
    /\ shard_roots' = [computed |-> TRUE,
                       block |-> CanonicalRoot(shard_block),
                       other |-> CanonicalRoot(other_block),
                       header |-> HeaderCanonicalRoot(BlockHeader(shard_block))]
    /\ UNCHANGED <<shard_block, other_block>>
    /\ NotShardIdle

InitShard ==
    /\ OldInit /\ ThreadsInit /\ BuilderInit /\ LateInit
    /\ shard_block \in ShardBlocks
    /\ other_block \in ShardBlocks
    /\ shard_roots = NoRoots

NextShard == ComputeCanonicalRoots

SpecShard == InitShard /\ [][NextShard]_vars

(***************************************************************************)
(* LmdGhost::find_head over the reduced tree.  A node is named by its      *)
(* block root; the order of the roots is the order of the numbers.         *)
(***************************************************************************)
RECURSIVE ReachesRoot(_, _, _)
ReachesRoot(parent, n, fuel) ==
    IF parent[n] = 0 THEN TRUE
    ELSE IF fuel = 0 THEN FALSE
    ELSE ReachesRoot(parent, parent[n], fuel - 1)

\* The reduced trees of the model: one root, every node below it.
ReducedTrees ==
    {t \in [parent : [Nodes -> 0..MaxNodes], votes : [Nodes -> 0..MaxVote]] :
        /\ Cardinality({n \in Nodes : t.parent[n] = 0}) = 1
        /\ \A n \in Nodes : ReachesRoot(t.parent, n, MaxNodes)}

Children(t, n) == {c \in Nodes : t.parent[c] = n}

\* n is d or an ancestor of d.
RECURSIVE IsAncestorOrSelf(_, _, _)
IsAncestorOrSelf(t, n, d) ==
    IF d = n THEN TRUE
    ELSE IF t.parent[d] = 0 THEN FALSE
    ELSE IsAncestorOrSelf(t, n, t.parent[d])

RECURSIVE SumVotes(_, _)
SumVotes(t, subtree) ==
    IF subtree = {} THEN 0
    ELSE LET n == CHOOSE x \in subtree : TRUE
         IN  t.votes[n] + SumVotes(t, subtree \ {n})

\* The weight of a node: the balance attesting to its subtree.
Weight(t, n) == SumVotes(t, {d \in Nodes : IsAncestorOrSelf(t, n, d)})

\* A variant that gives a tie to the lesser root.
BestChildLesserRoot(t, n) ==
    CHOOSE c \in Children(t, n) :
        \A d \in Children(t, n) \ {c} :
            \/ Weight(t, c) > Weight(t, d)
            \/ Weight(t, c) = Weight(t, d) /\ c < d

\* The child with the greatest weight, a tie going to the greater root.
BestChild(t, n) ==
    CHOOSE c \in Children(t, n) :
        \A d \in Children(t, n) \ {c} :
            \/ Weight(t, c) > Weight(t, d)
            \/ Weight(t, c) = Weight(t, d) /\ c > d

\* find_head is called with start_block_root.
FindHeadCalled ==
    /\ fh_pc = "idle"
    /\ fh_pc' = "walking"
    /\ fh_path' = <<fh_start>>
    /\ UNCHANGED <<ghost_tree, fh_start>>
    /\ NotGhostIdle

\* find_head moves to a child.
FindHeadStep ==
    /\ fh_pc = "walking"
    /\ Children(ghost_tree, fh_path[Len(fh_path)]) # {}
    /\ fh_path' = Append(fh_path, BestChild(ghost_tree, fh_path[Len(fh_path)]))
    /\ UNCHANGED <<ghost_tree, fh_pc, fh_start>>
    /\ NotGhostIdle

\* find_head is at a node with no child and returns it.
FindHeadReturns ==
    /\ fh_pc = "walking"
    /\ Children(ghost_tree, fh_path[Len(fh_path)]) = {}
    /\ fh_pc' = "returned"
    /\ UNCHANGED <<ghost_tree, fh_start, fh_path>>
    /\ NotGhostIdle

InitGhost ==
    /\ EarlierInit /\ BodyInit /\ SlotInit
    /\ ghost_tree \in ReducedTrees
    /\ fh_start \in Nodes
    /\ fh_pc = "idle"
    /\ fh_path = <<>>

NextGhost ==
    \/ FindHeadCalled
    \/ FindHeadStep
    \/ FindHeadReturns

SpecGhost == InitGhost /\ [][NextGhost]_vars

(***************************************************************************)
(* Threads that call insert_body and get_body.  get_body takes the read    *)
(* lock for the clone, lets it go, and takes the write lock for the reset. *)
(***************************************************************************)
\* A thread calls insert_body with a body of its own, or get_body.
BodyCalled ==
    /\ \E t \in 1..NumBodyThreads :
        /\ body_calls[t].pc = "idle"
        /\ \/ body_calls' = [body_calls EXCEPT ![t] =
                    [op |-> "insert_body", pc |-> "called", body |-> <<t>>, ret |-> <<>>]]
           \/ body_calls' = [body_calls EXCEPT ![t] =
                    [op |-> "get_body", pc |-> "called", body |-> <<>>, ret |-> <<>>]]
    /\ UNCHANGED <<pool_body, body_erased>>
    /\ NotBodyIdle

\* insert_body: *self.body.write() = body
InsertBody ==
    /\ \E t \in 1..NumBodyThreads :
        /\ body_calls[t].pc = "called"
        /\ body_calls[t].op = "insert_body"
        /\ pool_body' = body_calls[t].body
        /\ body_calls' = [body_calls EXCEPT ![t].pc = "done"]
    /\ UNCHANGED body_erased
    /\ NotBodyIdle

\* get_body: let body = self.body.read().clone()
GetBodyClone ==
    /\ \E t \in 1..NumBodyThreads :
        /\ body_calls[t].pc = "called"
        /\ body_calls[t].op = "get_body"
        /\ body_calls' = [body_calls EXCEPT ![t].pc = "cloned", ![t].body = pool_body]
    /\ UNCHANGED <<pool_body, body_erased>>
    /\ NotBodyIdle

\* get_body: *self.body.write() = vec![], and the clone is returned
GetBodyReset ==
    /\ \E t \in 1..NumBodyThreads :
        /\ body_calls[t].pc = "cloned"
        /\ body_erased' = IF pool_body = <<>> THEN body_erased
                        ELSE body_erased \cup {pool_body}
        /\ pool_body' = <<>>
        /\ body_calls' = [body_calls EXCEPT ![t].pc = "done", ![t].ret = body_calls[t].body]
    /\ NotBodyIdle

InitBody == EarlierInit /\ GhostInit /\ BodyInit /\ SlotInit

NextBody ==
    \/ BodyCalled
    \/ InsertBody
    \/ GetBodyClone
    \/ GetBodyReset

SpecBody == InitBody /\ [][NextBody]_vars

(***************************************************************************)
(* per_shard_slot_processing, and the caller that runs it until the state  *)
(* is at the slot of the block.                                            *)
(***************************************************************************)
\* ShardSlot::epoch.
ShardSlotEpoch(slot, slots_per_epoch, shard_slots_per_beacon_slot) ==
    (slot \div slots_per_epoch) \div shard_slots_per_beacon_slot

\* The test of the period boundary.
AtPeriodBoundary(st, spec) ==
    (ShardSlotEpoch(st.slot, spec.slots_per_epoch, spec.shard_slots_per_beacon_slot) + 1)
        % spec.epochs_per_shard_period = 0

\* The body of the period branch: a comment.
PeriodProcessing(st) == st

\* process_shard_slot: caches the root of the state; the slot is left alone.
ProcessShardSlot(st, spec) == [st EXCEPT !.state_root_cached = TRUE]

\* A variant that returns after the period branch.
PerShardSlotProcessingPeriodReturns(st, spec) ==
    IF AtPeriodBoundary(st, spec)
    THEN Outcome(PeriodProcessing(st), Ok)
    ELSE LET st2 == ProcessShardSlot(st, spec)
         IN  Outcome([st2 EXCEPT !.slot = @ + 1], Ok)

PerShardSlotProcessing(st, spec) ==
    LET st1 == IF AtPeriodBoundary(st, spec) THEN PeriodProcessing(st) ELSE st
        st2 == ProcessShardSlot(st1, spec)
    IN  Outcome([st2 EXCEPT !.slot = @ + 1], Ok)

\* A block arrives whose slot is not behind the state: the caller starts
\* its loop.
ShardBlockArrives ==
    /\ slot_loop.pc = "idle"
    /\ \E block_slot \in shard_state.slot..MaxShardSlot :
            slot_loop' = [NoLoop EXCEPT !.pc = "looping", !.start = shard_state.slot,
                                        !.block_slot = block_slot]
    /\ shard_state' = [shard_state EXCEPT !.state_root_cached = FALSE]
    /\ UNCHANGED chain_spec
    /\ NotSlotIdle

\* One turn of the loop: state.slot < block.slot, per_shard_slot_processing
\* is called.
PerShardSlotProcessingCall ==
    /\ slot_loop.pc = "looping"
    /\ shard_state.slot < slot_loop.block_slot
    /\ LET o == PerShardSlotProcessing(shard_state, chain_spec)
       IN  /\ shard_state' = o.state
           /\ slot_loop' = [slot_loop EXCEPT
                    !.calls = @ + 1,
                    !.at_period_boundary =
                        IF AtPeriodBoundary(shard_state, chain_spec) THEN @ + 1 ELSE @,
                    !.ret = IF o.result.ok THEN "Ok" ELSE "Err"]
    /\ UNCHANGED chain_spec
    /\ NotSlotIdle

\* The condition of the loop is false: the loop ends.
LoopExit ==
    /\ slot_loop.pc = "looping"
    /\ ~(shard_state.slot < slot_loop.block_slot)
    /\ slot_loop' = [slot_loop EXCEPT !.pc = "done"]
    /\ UNCHANGED <<shard_state, chain_spec>>
    /\ NotSlotIdle

\* The caller goes on to the block and is ready for the next one.
BlockProcessed ==
    /\ slot_loop.pc = "done"
    /\ slot_loop' = [slot_loop EXCEPT !.pc = "idle"]
    /\ UNCHANGED <<shard_state, chain_spec>>
    /\ NotSlotIdle

InitSlot ==
    /\ EarlierInit /\ GhostInit /\ BodyInit
    /\ shard_state \in [slot : 0..MaxShardSlot, state_root_cached : {FALSE}]
    /\ chain_spec \in ChainSpecs
    /\ slot_loop = NoLoop

NextSlot ==
    \/ ShardBlockArrives
    \/ PerShardSlotProcessingCall
    \/ LoopExit
    \/ BlockProcessed

\* The loop is sequential code: a turn that can be taken is taken.
SpecSlot ==
    /\ InitSlot /\ [][NextSlot]_vars
    /\ WF_vars(PerShardSlotProcessingCall) /\ WF_vars(LoopExit)

(***************************************************************************)
(* The claims.                                                             *)
(***************************************************************************)
Failed == pc = "returned" /\ ~result.ok
EarlyHeaderReasons == {"StateSlotMismatch", "ParentBlockRootMismatch"}

\* C1 (as claimed): when per_block_processing fails at any sub-step, the
\* beacon state is exactly what it was before the call.
C1_FailureLeavesStateUntouched == Failed => state = pre

\* C1 (amended): a failure of the header's slot or parent-root check leaves
\* the state as it was before the call; a failure at any later point leaves
\* in the state what was written before it - the block's temporary header,
\* after the header step the committee caches, after the RANDAO step the new
\* mix, after the eth1 step the block's vote - so the state differs from the
\* one before the call.
C1_FailureKeepsEarlierEffects ==
    Failed =>
        IF result.reason \in EarlyHeaderReasons
        THEN state = pre
        ELSE /\ state # pre
             /\ state.latest_block_header = TemporaryBlockHeader(block)
             /\ result.step # "header" => state.committee_caches
             /\ result.step \notin {"header", "randao"} =>
                    /\ state.latest_randao_mix
                         = Xor(pre.latest_randao_mix, block.randao_reveal.hash)
                    /\ state.eth1_data_votes
                         = Append(pre.eth1_data_votes, block.eth1_data)

\* C1 witness: a call that failed in the transfers step with a state that is
\* no longer the one it was given.
C1_Witness == Failed /\ result.step = "transfers" /\ state # pre

\* C2 (as claimed): a second evaluation of per_block_processing on the same
\* state and block gives the same result (step and index included) and the
\* same state, whatever the scheduling of the parallel verification.
C2_SameResultOnReplay ==
    pc = "returned" => (replay.result = result /\ replay.state = state)

\* The deposits of the block carry the indices the state expects next.
WellIndexed(deposits, deposit_index) ==
    \A k \in 1..Len(deposits) : deposits[k].index = deposit_index + k - 1

Pubkeys(st) == {st.validator_registry[k].pubkey : k \in 1..Len(st.validator_registry)}

\* C3 (as claimed): process_deposits returning Ok for a block of n deposits
\* with the expected indices has advanced deposit_index by n and has applied
\* every deposit but the new-pubkey ones of invalid signature: the pubkey of
\* every deposit of valid signature is in the registry, and the balance of
\* validator 1 has grown by the amounts deposited for it (in a block without
\* slashings, the deposits being then the first to change a balance).
C3_InvalidSignatureDepositSkippedAlone ==
    (/\ pc = "exits"
     /\ WellIndexed(block.deposits, pre.deposit_index)
     /\ block.proposer_slashings = <<>> /\ block.attester_slashings = <<>>) =>
        /\ state.deposit_index = AddU64(pre.deposit_index, Len(block.deposits))
        /\ \A k \in 1..Len(block.deposits) :
                block.deposits[k].signature_valid => block.deposits[k].pubkey \in Pubkeys(state)
        /\ state.balances[1] = pre.balances[1]
              + Cardinality({k \in 1..Len(block.deposits) : block.deposits[k].pubkey = 1})

SameKey(a, b) == AttestationIdFromData(a.data) = AttestationIdFromData(b.data)

\* C5: two attestations with the same data and domain inserted into the
\* empty pool give one entry: of bitfield a OR b when the bitfields are
\* disjoint, and the first attestation itself when the bitfields are equal.
C5_TwoInsertsOneEntry ==
    (Len(inserted) = 2 /\ SameKey(inserted[1], inserted[2])) =>
        LET a == inserted[1]
            b == inserted[2]
            bucket == attestations[AttestationIdFromData(a.data)]
        IN  /\ SignersDisjointFrom(a, b) =>
                /\ NumAttestations(attestations) = 1
                /\ Len(bucket) = 1
                /\ bucket[1].aggregation_bitfield
                     = a.aggregation_bitfield \cup b.aggregation_bitfield
            /\ a.aggregation_bitfield = b.aggregation_bitfield =>
                /\ NumAttestations(attestations) = 1
                /\ bucket = <<a>>

\* C5 witness: bitfields {1} and {2} inserted, one entry of bitfield {1, 2}.
C5_Witness ==
    /\ Len(inserted) = 2
    /\ SameKey(inserted[1], inserted[2])
    /\ inserted[1].aggregation_bitfield = {1}
    /\ inserted[2].aggregation_bitfield = {2}
    /\ NumAttestations(attestations) = 1
    /\ attestations[AttestationIdFromData(inserted[1].data)][1].aggregation_bitfield = {1, 2}

\* C6 (as claimed): any two distinct entries of a bucket have disjoint signer
\* bitfields.
C6_BucketEntriesDisjoint ==
    \A id \in DOMAIN attestations :
        \A i, j \in 1..Len(attestations[id]) :
            i # j => SignersDisjointFrom(attestations[id][i], attestations[id][j])

\* C6 (amended): any two distinct entries of a bucket have overlapping signer
\* bitfields: an attestation is merged into every entry it is disjoint from
\* and is kept as an entry of its own only when it overlaps every entry.
C6_BucketEntriesOverlap ==
    \A id \in DOMAIN attestations :
        \A i, j \in 1..Len(attestations[id]) :
            i # j => ~SignersDisjointFrom(attestations[id][i], attestations[id][j])

\* C6 witness: a bucket of two entries.
C6_Witness == \E id \in DOMAIN attestations : Len(attestations[id]) >= 2

(***************************************************************************)
(* Claims about the message processor.                                     *)
(***************************************************************************)
Count(seq, Test(_)) == Cardinality({k \in DOMAIN seq : Test(seq[k])})

StatusHandlerRan == last.handler \in {"on_status_request", "on_status_response"}

\* The Status the handler was given (the last element of its input).
RemoteOf(l) == l.input[Len(l.input)]

IsGoodbye(m, peer) ==
    /\ m.to = peer /\ m.event = "Request" /\ m.rpc = "Goodbye"
    /\ m.body = <<"IrrelevantNetwork">>

Goodbyes == Count(network_send, LAMBDA m : m.rpc = "Goodbye")
AddPeers == Count(sync_send, LAMBDA m : m.msg = "AddPeer")

\* The canonical slots whose block root the walk back from the head yields.
CanonicalSlots(c) ==
    {t \in c.slots : \E k \in DOMAIN RevIterBlockRoots(c) :
                        RevIterBlockRoots(c)[k].root = BlockRootOf(t)}

\* The blocks of a set of slots, in ascending slot order.
RECURSIVE AscendingBlocks(_)
AscendingBlocks(slots) ==
    IF slots = {} THEN <<>>
    ELSE LET hi == MaxOf(slots)
         IN  Append(AscendingBlocks(slots \ {hi}), BeaconBlockAt(hi))

\* C4 (as claimed): the handler of a BlocksByRange request sends the canonical
\* blocks whose slot lies in [start_slot, start_slot + count), each once, in
\* ascending slot order, and then one terminator as the last response.
C4_RangeBlocksThenTerminator ==
    last.handler = "on_blocks_by_range_request" =>
        LET req == last.input[2]
            wanted == {t \in CanonicalSlots(chain) :
                          req.start_slot <= t /\ t < req.start_slot + req.count}
        IN  network_send
              = RangeResponses(last.peer, last.input[1], AscendingBlocks(wanted))
                  \o <<NoBody(RpcResponse(last.peer, last.input[1], "BlocksByRange", 0))>>

\* C7: on_block_gossip returns true exactly when process_block returned
\* Processed, ParentUnknown, BlockIsAlreadyKnown, or FutureSlot with
\* block_slot <= present_slot + 1, and false for every other outcome and for
\* an error.
C7_ForwardExactlyWhenAcceptable ==
    last.handler = "on_block_gossip" =>
        LET res == last.input[2]
        IN  last.ret[1] =
              (/\ res.ok
               /\ \/ res.kind \in {"Processed", "ParentUnknown", "BlockIsAlreadyKnown"}
                  \/ /\ res.kind = "FutureSlot"
                     /\ res.block_slot <= res.present_slot + 1)

\* C7 witness: a FutureSlot block two slots ahead of the clock is not
\* forwarded.
C7_Witness ==
    /\ last.handler = "on_block_gossip"
    /\ last.input[2].ok /\ last.input[2].kind = "FutureSlot"
    /\ last.input[2].block_slot = last.input[2].present_slot + 2
    /\ last.ret = <<FALSE>>

\* C8 (as claimed): a Status of another fork_version makes process_status
\* send exactly one Goodbye(IrrelevantNetwork) to the peer and no AddPeer, and
\* the peer is removed: the sync manager no longer holds it and the
\* connection is closed.
C8_OtherForkPeerRemoved ==
    (StatusHandlerRan /\ RemoteOf(last).fork_version # LocalForkVersion) =>
        /\ Goodbyes = 1
        /\ Count(network_send, LAMBDA m : IsGoodbye(m, last.peer)) = 1
        /\ AddPeers = 0
        /\ last.peer \notin sync_peers
        /\ last.peer \notin connected

\* The different-finalized-chain condition of a Status against the chain.
OnDifferentFinalizedChain(c, remote) ==
    LET local == StatusMessage(c)
        at == RootAtSlot(c, StartSlot(remote.finalized_epoch))
    IN  /\ remote.finalized_epoch <= local.finalized_epoch
        /\ remote.finalized_root # ZeroHash
        /\ local.finalized_root # ZeroHash
        /\ (~at.some \/ at.value # remote.finalized_root)

\* C9: with matching forks, a Status on a different finalized chain (the
\* chain having no root at the slot included) gets one
\* Goodbye(IrrelevantNetwork) and no AddPeer; with matching forks and one of
\* the two finalized roots zero, no Goodbye is sent.
C9_DifferentFinalizedChainDisconnects ==
    (StatusHandlerRan /\ RemoteOf(last).fork_version = LocalForkVersion) =>
        LET remote == RemoteOf(last)
        IN  /\ OnDifferentFinalizedChain(chain, remote) =>
                /\ Goodbyes = 1
                /\ Count(network_send, LAMBDA m : IsGoodbye(m, last.peer)) = 1
                /\ AddPeers = 0
            /\ (remote.finalized_root = ZeroHash
                  \/ StatusMessage(chain).finalized_root = ZeroHash) => Goodbyes = 0

\* C9 witness: a Status whose finalized epoch starts at a slot the chain has
\* no root for was answered with a Goodbye.
C9_Witness ==
    /\ StatusHandlerRan
    /\ RemoteOf(last).fork_version = LocalForkVersion
    /\ OnDifferentFinalizedChain(chain, RemoteOf(last))
    /\ ~RootAtSlot(chain, StartSlot(RemoteOf(last).finalized_epoch)).some
    /\ Goodbyes = 1

\* C10: process_status sends one AddPeer with the peer's Status - logged as
\* a peer with a known chain when remote.head_root is in the store and as a
\* useful peer otherwise - exactly when the forks match, the peer is not on a
\* different finalized chain and remote.finalized_epoch >= the local one; no
\* Status causes both a Goodbye and an AddPeer.
C10_AddPeerExactlyWhenUseful ==
    StatusHandlerRan =>
        LET remote == RemoteOf(last)
            adds == /\ remote.fork_version = LocalForkVersion
                    /\ ~OnDifferentFinalizedChain(chain, remote)
                    /\ remote.finalized_epoch >= StatusMessage(chain).finalized_epoch
        IN  /\ adds => /\ sync_send = <<AddPeer(last.peer, remote)>>
                       /\ last.log = IF StoreExists(chain, remote.head_root)
                                      THEN "Peer with known chain found"
                                      ELSE "UsefulPeer"
            /\ ~adds => sync_send = <<>>
            /\ ~(Goodbyes > 0 /\ AddPeers > 0)

\* C10 witness: a peer whose head is not in the store was added as useful.
C10_Witness ==
    /\ StatusHandlerRan
    /\ AddPeers = 1
    /\ ~StoreExists(chain, RemoteOf(last).head_root)
    /\ last.log = "UsefulPeer"
    /\ last.peer \in sync_peers

\* The peer of the Status is merely behind: same fork, not on a different
\* finalized chain, a lower finalized epoch.
MerelyBehind(c, remote) ==
    /\ remote.fork_version = LocalForkVersion
    /\ ~OnDifferentFinalizedChain(c, remote)
    /\ remote.finalized_epoch < StatusMessage(c).finalized_epoch

\* C11: for a peer that is merely behind, process_status sends no Goodbye
\* (the network gets nothing but the Status answer to a request), sends
\* nothing to the sync manager, and the peer stays connected.
C11_NaivePeerLeftAlone ==
    (StatusHandlerRan /\ MerelyBehind(chain, RemoteOf(last))) =>
        /\ Goodbyes = 0
        /\ network_send =
              IF last.handler = "on_status_request"
              THEN <<RpcResponse(last.peer, last.input[1], "Status", StatusMessage(chain))>>
              ELSE <<>>
        /\ sync_send = <<>>
        /\ last.peer \in connected

\* C11 witness: a Status response of a peer that is merely behind was
\* processed and nothing was sent.
C11_Witness ==
    /\ last.handler = "on_status_response"
    /\ MerelyBehind(chain, RemoteOf(last))
    /\ last.log = "NaivePeer"
    /\ network_send = <<>> /\ sync_send = <<>>

\* C13: a BlocksByRoot request is answered with one response per requested
\* root that the store holds, carrying its block, in the order of the
\* request - a root the store lacks gives nothing - and then with one
\* terminator, the last message; the block responses are no more than the
\* roots requested.
C13_RootBlocksThenTerminator ==
    last.handler = "on_blocks_by_root_request" =>
        LET block_roots == last.input[2]
            held == SelectSeq(block_roots, LAMBDA r : \E t \in chain.slots : BlockRootOf(t) = r)
            n == Len(network_send)
        IN  /\ n = Len(held) + 1
            /\ n - 1 <= Len(block_roots)
            /\ \A k \in 1..Len(held) :
                   network_send[k] = RpcResponse(last.peer, last.input[1], "BlocksByRoot",
                                                 AsSszBytes(BeaconBlockAt(held[k] - 1)))
            /\ network_send[n] = NoBody(RpcResponse(last.peer, last.input[1], "BlocksByRoot", 0))
            /\ sync_send = <<>>

\* C13 witness: of two requested roots the first is unknown and the second
\* held: one block and the terminator were sent.
C13_Witness ==
    /\ last.handler = "on_blocks_by_root_request"
    /\ Len(last.input[2]) = 2
    /\ last.input[2][1] = ForeignRoot
    /\ last.input[2][2] = BlockRootOf(0)
    /\ Len(network_send) = 2

\* C15: on_block_gossip sends UnknownBlock(peer, block) once to the sync
\* manager when process_block returned ParentUnknown; for every other outcome
\* and for an error it sends nothing to the sync manager; it never sends
\* anything to the network.
C15_UnknownBlockOnlyOnParentUnknown ==
    last.handler = "on_block_gossip" =>
        LET b == last.input[1]
            res == last.input[2]
        IN  /\ (res.ok /\ res.kind = "ParentUnknown") =>
                   sync_send = <<UnknownBlock(last.peer, b)>>
            /\ ~(res.ok /\ res.kind = "ParentUnknown") => sync_send = <<>>
            /\ network_send = <<>>

\* C15 witness: a block of unknown parent was reported to the sync manager.
C15_Witness ==
    /\ last.handler = "on_block_gossip"
    /\ last.input[2].kind = "ParentUnknown"
    /\ Len(sync_send) = 1
    /\ sync_send[1].msg = "UnknownBlock"

\* The header step has just run: it failed, or the call is about to build
\* the committee caches.
HeaderStepRan == pc = "caches" \/ (pc = "returned" /\ result.step = "header")

\* C19: process_block_header rejects with StateSlotMismatch when block.slot
\* is not state.slot, and with ParentBlockRootMismatch when the block's
\* previous_block_root is not the signed root of state.latest_block_header,
\* both with the state unmodified; when both checks pass the block's
\* temporary header is state.latest_block_header, and the block is rejected
\* with ProposerSlashed if the proposer of block.slot is slashed.
C19_HeaderChecksThenInstall ==
    HeaderStepRan =>
        LET slot_ok == block.slot = pre.slot
            root_ok == block.previous_block_root = SignedRoot(pre.latest_block_header)
            proposer == ValidatorAt(pre, BeaconProposerIndex(pre, block.slot))
        IN  /\ ~slot_ok =>
                /\ result = Err("header", NoIndex, "StateSlotMismatch")
                /\ state = pre
            /\ (slot_ok /\ ~root_ok) =>
                /\ result = Err("header", NoIndex, "ParentBlockRootMismatch")
                /\ state = pre
            /\ (slot_ok /\ root_ok) =>
                /\ state = [pre EXCEPT !.latest_block_header = TemporaryBlockHeader(block)]
                /\ proposer.slashed => result = Err("header", NoIndex, "ProposerSlashed")

\* C19 witness: the block of a slashed proposer was rejected with its header
\* installed.
C19_Witness ==
    /\ pc = "returned"
    /\ result.reason = "ProposerSlashed"
    /\ state.latest_block_header = TemporaryBlockHeader(block)
    /\ state.latest_block_header # pre.latest_block_header

DepositsStepRan == pc = "exits" \/ (pc = "returned" /\ result.step = "deposits")

NoSlashings == block.proposer_slashings = <<>> /\ block.attester_slashings = <<>>

\* C20 (as claimed): process_deposits rejects the block with
\* DepositCountInvalid unless the block has exactly
\* min(max_deposits, latest_eth1_data.deposit_count - deposit_index)
\* deposits, and then deposit_index, the registry and the balances are what
\* they were (the difference is the number of deposits the state still
\* expects: no block can carry a negative number of them).
C20_DepositCountExact ==
    DepositsStepRan =>
        LET expected == Min(MaxDeposits,
                            state.latest_eth1_data.deposit_count - pre.deposit_index)
            rejected == /\ pc = "returned"
                        /\ result = Err("deposits", NoIndex, "DepositCountInvalid")
        IN  /\ rejected = (Len(block.deposits) # expected)
            /\ rejected =>
                /\ state.deposit_index = pre.deposit_index
                /\ Len(state.validator_registry) = Len(pre.validator_registry)
                /\ NoSlashings => /\ state.validator_registry = pre.validator_registry
                                  /\ state.balances = pre.balances

(***************************************************************************)
(* The fixed order of the sub-steps.                                       *)
(***************************************************************************)
\* What one sub-step makes of a state and a block.
RunStep(step, st, b) ==
    CASE step = "header" -> {ProcessBlockHeader(st, b, TRUE)}
      [] step = "caches" -> {BuildCommitteeCaches(st)}
      [] step = "randao" -> {ProcessRandao(st, b)}
      [] step = "eth1_data" -> {ProcessEth1Data(st, b.eth1_data)}
      [] step = "proposer_slashings" -> ProcessProposerSlashings(st, b.proposer_slashings)
      [] step = "attester_slashings" -> ProcessAttesterSlashings(st, b.attester_slashings)
      [] step = "attestations" -> ProcessAttestations(st, b.attestations)
      [] step = "deposits" -> ProcessDeposits(st, b.deposits)
      [] step = "exits" -> ProcessExits(st, b.voluntary_exits)
      [] step = "transfers" -> ProcessTransfers(st, b.transfers)

\* Steps k..n of the order run one after the other on st, each only when
\* the one before it succeeded: the outcomes.
RECURSIVE RunInOrder(_, _, _, _)
RunInOrder(st, b, k, n) ==
    IF k > n THEN {Outcome(st, Ok)}
    ELSE UNION {IF o.result.ok THEN RunInOrder(o.state, b, k + 1, n) ELSE {o}
                    : o \in RunStep(StepOrder[k], st, b)}

\* C18: the sub-steps run in the order header, committee caches, RANDAO,
\* eth1 data, proposer slashings, attester slashings, attestations, deposits,
\* exits, transfers, and a step runs only if every earlier one succeeded: a
\* call that stands before a step has run exactly the steps before it, all
\* with success, and a call that returned gives the state and the result of
\* running the steps in this order up to the first that fails, whatever the
\* block holds for the steps after it.
C18_StepsInFixedOrder ==
    /\ pc \in {StepOrder[k] : k \in 2..Len(StepOrder)} =>
        Outcome(state, Ok) \in RunInOrder(pre, block, 1, Position(pc) - 1)
    /\ pc = "returned" =>
        Outcome(state, result) \in RunInOrder(pre, block, 1, Len(StepOrder))

\* The RANDAO step failed on a block that holds a proposer slashing and
\* invalid operations for the later steps: the error is the RANDAO one and
\* validator 0 is not slashed.
C18_Witness ==
    /\ pc = "returned"
    /\ result = Err("randao", NoIndex, "BadRandaoSignature")
    /\ block.proposer_slashings = <<[proposer_index |-> 0, valid |-> TRUE]>>
    /\ block.transfers # <<>>
    /\ state.validator_registry = pre.validator_registry
    /\ state.latest_block_header # pre.latest_block_header

(***************************************************************************)
(* The Status handshake.                                                   *)
(***************************************************************************)
StatusesSent == SelectSeq(handled.sent, IsStatus)

AnsweredOnce ==
    /\ handled.handler = "on_status_request" =>
        StatusesSent = <<RpcResponse(handled.peer, handled.id, "Status",
                                     StatusMessage(nodes[handled.node]))>>
    /\ handled.handler = "on_status_response" => StatusesSent = <<>>
    /\ status_count <= 2 * Cardinality(Peers)

HandshakeOver == dialed = Peers /\ \A n \in Peers : wire[n] = <<>>

\* C12: on_status_request sends exactly one Status, a response with the
\* node's own status under the id of the request, and on_status_response
\* sends no Status; so the two nodes send at most a request and a response
\* each, and once on_connect has run on both sides the wires empty and stay
\* empty.
C12_HandshakeBoundedAndStops == []AnsweredOnce /\ <>[]HandshakeOver

\* Both nodes have dialed, each has sent its request and its response, and
\* the last response has been handled.
C12_Witness ==
    /\ HandshakeOver
    /\ status_count = 2 * Cardinality(Peers)
    /\ handled.handler = "on_status_response"

(***************************************************************************)
(* Response chunks on their way to the sync manager.                       *)
(***************************************************************************)
IsResponse(m) == m.msg \in {"BlocksByRangeResponse", "BlocksByRootResponse"}

\* The chunks of a sequence of messages that belong to one peer and request.
OfRequest(msgs, peer_id, request_id) ==
    LET belongs(m) == IsResponse(m) /\ m.peer = peer_id /\ m.body[1] = request_id
    IN  SelectSeq(msgs, belongs)

IsPrefix(s, t) == Len(s) <= Len(t) /\ s = SubSeq(t, 1, Len(s))

\* C14: each response chunk handed to the message processor, the None
\* terminator included, makes one message to the sync manager with the same
\* peer, request id and block: the messages taken by the sync manager, those
\* in the channel and those the channel refused are together the chunks
\* received, each once; and for every peer and request id the sync manager
\* has taken the chunks in the order they were received.
C14_ChunksForwardedOnceInOrder ==
    /\ SelectSeq(sync_got \o sync_channel \o dropped, IsResponse)
         = SelectSeq(received, IsResponse)
    /\ \A peer_id \in Peers, request_id \in 0..MaxRequestId :
         IsPrefix(OfRequest(sync_got, peer_id, request_id),
                  OfRequest(received, peer_id, request_id))

\* The sync manager has taken a block and then the terminator of one
\* request, and a chunk of another request in between.
C14_Witness ==
    /\ Len(sync_got) = MaxChunks
    /\ sync_got[1] = BlocksByRangeResponse(1, 0, Some(BeaconBlockAt(0)))
    /\ sync_got[2] = BlocksByRootResponse(2, 1, Some(BeaconBlockAt(1)))
    /\ sync_got[MaxChunks] = BlocksByRangeResponse(1, 0, None)

(***************************************************************************)
(* Backpressure on the channel to the sync manager.                        *)
(***************************************************************************)
SyncChannelCapacity == 2    \* the messages a bounded channel would hold

\* C16 (as claimed): the channel to the sync manager is bounded, it never
\* holds more than its capacity; and a message the channel refuses is
\* dropped only if it comes from gossip (UnknownBlock), a response chunk
\* being kept for a retry: every response chunk received has been taken by
\* the sync manager or waits in the channel.
C16_BoundedChannelResponsesKept ==
    /\ Len(sync_channel) <= SyncChannelCapacity
    /\ \A k \in 1..Len(dropped) : ~IsResponse(dropped[k])
    /\ SelectSeq(sync_got \o sync_channel, IsResponse) = SelectSeq(received, IsResponse)

(***************************************************************************)
(* The Status message and the head.                                        *)
(***************************************************************************)
\* C17 (as claimed): the Status message status_message has built is the
\* Status of one head: all five fields are those of one (block, state) pair
\* the chain had as its head while the message was built.
C17_StatusOfOneHead ==
    sm_pc = "built" => \E h \in heads_seen : sm_status = StatusMessage(h)

(***************************************************************************)
(* The index an error carries.                                             *)
(***************************************************************************)
\* The list of the block body a step works on.
ListOf(b, step) ==
    CASE step = "proposer_slashings" -> b.proposer_slashings
      [] step = "attester_slashings" -> b.attester_slashings
      [] step = "attestations" -> b.attestations
      [] step = "deposits" -> b.deposits
      [] step = "exits" -> b.voluntary_exits
      [] step = "transfers" -> b.transfers
      [] OTHER -> <<>>

\* The object is one its step rejects in state st.
Offending(st, step, obj) ==
    CASE step = "proposer_slashings" -> ~VerifyProposerSlashing(st, obj)
      [] step = "attester_slashings" ->
            \/ ~VerifyIndexedAttestation(st, obj.attestation_1)
            \/ ~VerifyIndexedAttestation(st, obj.attestation_2)
            \/ ~VerifyAttesterSlashing(st, obj)
            \/ SlashableIndices(st, obj) = {}
      [] step = "attestations" -> ~ValidateAttestation(st, obj)
      [] step = "deposits" ->
            ~VerifyDepositMerkleProof(st, obj) \/ ~VerifyDepositIndex(st, obj)
      [] step = "exits" -> ~VerifyExit(st, obj)
      [] step = "transfers" -> ~VerifyTransfer(st, obj)
      [] OTHER -> FALSE

IndexedFailure == Failed /\ result.index # NoIndex

\* C21 (as claimed): the index of an error is the position, in the list of
\* the block body its step works on, of an object the step rejects; for the
\* attester slashings the position of the slashing, whichever of its two
\* indexed attestations is at fault.
C21_IndexIsPositionInList ==
    IndexedFailure =>
        LET list == ListOf(block, result.step)
        IN  /\ result.index \in 0..(Len(list) - 1)
            /\ Offending(state, result.step, list[result.index + 1])

(***************************************************************************)
(* process_attestations                                                    *)
(***************************************************************************)
\* The pending attestations of the block's attestations of the current
\* epoch (current = TRUE) or of another epoch, in block order.
PendingOf(st, atts, current) ==
    LET wanted(att) == (att.data.target_epoch = CurrentEpoch(st)) = current
        chosen == SelectSeq(atts, wanted)
    IN  [k \in 1..Len(chosen) |->
            [data |-> chosen[k].data,
             inclusion_delay |-> st.slot - chosen[k].data.slot,
             proposer_index |-> BeaconProposerIndex(st, st.slot)]]

\* C22: when process_attestations succeeds, the current epoch's list has
\* grown by one PendingAttestation for every block attestation whose target
\* epoch is the state's current epoch, the previous epoch's list by one for
\* every other, in block order, each with inclusion_delay = state.slot -
\* attestation slot and the proposer of state.slot; when it fails with an
\* attestation that does not validate, both lists are as before the call.
C22_PendingAttestationsAppended ==
    /\ pc = "deposits" =>
        /\ state.current_epoch_attestations
             = pre.current_epoch_attestations \o PendingOf(state, block.attestations, TRUE)
        /\ state.previous_epoch_attestations
             = pre.previous_epoch_attestations \o PendingOf(state, block.attestations, FALSE)
    /\ (Failed /\ result.step = "attestations") =>
        /\ state.current_epoch_attestations = pre.current_epoch_attestations
        /\ state.previous_epoch_attestations = pre.previous_epoch_attestations

\* A block with an attestation of the current and one of the previous epoch
\* has passed the step.
C22_Witness ==
    /\ pc = "deposits"
    /\ PendingOf(state, block.attestations, TRUE) # <<>>
    /\ PendingOf(state, block.attestations, FALSE) # <<>>

(***************************************************************************)
(* process_eth1_data                                                       *)
(***************************************************************************)
\* The votes of the state that equal the block's, the new one included.
VotesForBlock ==
    LET same(vote) == vote = block.eth1_data
    IN  Len(SelectSeq(state.eth1_data_votes, same))

\* C23: process_eth1_data never fails; after it the votes are the votes
\* before the call with the block's eth1_data appended, and latest_eth1_data
\* is the block's eth1_data when the votes equal to it, the new one counted,
\* are strictly more than half of slots_per_eth1_voting_period, and is
\* unchanged with exactly half of them or fewer.
C23_Eth1VoteCounted ==
    /\ ~(Failed /\ result.step = "eth1_data")
    /\ pc = "proposer_slashings" =>
        /\ state.eth1_data_votes = Append(pre.eth1_data_votes, block.eth1_data)
        /\ state.latest_eth1_data =
             IF 2 * VotesForBlock > SlotsPerEth1VotingPeriod
             THEN block.eth1_data ELSE pre.latest_eth1_data

\* The block's vote is the one that makes the majority: latest_eth1_data has
\* changed.
C23_Witness ==
    /\ pc = "proposer_slashings"
    /\ state.latest_eth1_data # pre.latest_eth1_data
    /\ state.latest_eth1_data = block.eth1_data

(***************************************************************************)
(* The protocol maxima of the operation lists.                             *)
(***************************************************************************)
BoundedSteps ==
    {"proposer_slashings", "attester_slashings", "attestations", "exits", "transfers"}

MaximumOf(step) ==
    CASE step = "proposer_slashings" -> MaxProposerSlashings
      [] step = "attester_slashings" -> MaxAttesterSlashings
      [] step = "attestations" -> MaxAttestations
      [] step = "exits" -> MaxVoluntaryExits
      [] step = "transfers" -> MaxTransfers

ExceededError(step) ==
    CASE step = "proposer_slashings" -> "MaxProposerSlashingsExceeded"
      [] step = "attester_slashings" -> "MaxAttesterSlashingsExceed"
      [] step = "attestations" -> "MaxAttestationsExceeded"
      [] step = "exits" -> "MaxExitsExceeded"
      [] step = "transfers" -> "MaxTransfersExceed"

\* The call has run the step: it stands after it, has returned Ok, or has
\* failed in it or after it.
StepHasRun(step) ==
    \/ pc \in {StepOrder[k] : k \in (Position(step) + 1)..Len(StepOrder)}
    \/ pc = "returned" /\ result.ok
    \/ Failed /\ \E k \in Position(step)..Len(StepOrder) : StepOrder[k] = result.step

TooLong(step) == Failed /\ result = Err(step, NoIndex, ExceededError(step))

\* C24: a list of proposer slashings, attester slashings, attestations,
\* exits or transfers is rejected with its step's Max...Exceeded error
\* exactly when it holds more objects than the protocol maximum - a list of
\* exactly the maximum passes - and the rejection comes before any object is
\* verified or applied: the error carries no index although the objects are
\* invalid, and the state is the one the steps before it have left.
C24_MaximumCheckedFirst ==
    \A step \in BoundedSteps :
        StepHasRun(step) =>
            /\ TooLong(step) = (Len(ListOf(block, step)) > MaximumOf(step))
            /\ TooLong(step) =>
                Outcome(state, Ok) \in RunInOrder(pre, block, 1, Position(step) - 1)

\* A block with one invalid exit more than the maximum is rejected for the
\* number of its exits.
C24_Witness ==
    /\ TooLong("exits")
    /\ Len(block.voluntary_exits) = MaxVoluntaryExits + 1
    /\ ~VerifyExit(state, block.voluntary_exits[1])

(***************************************************************************)
(* prune_attestations and get_attestation.                                 *)
(***************************************************************************)
AllEntries(map) == UNION {{map[id][k] : k \in 1..Len(map[id])} : id \in DOMAIN map}

\* C25: after prune_attestations(S_f) every attestation left in the pool has
\* target_slot >= S_f.slot, and every bucket whose attestations have
\* target_slot >= S_f.slot is in the pool as it was; the other buckets are
\* gone.
C25_PruneRemovesExactlyBelowFinalized ==
    pool_call.op = "prune_attestations" =>
        /\ \A a \in AllEntries(attestations) : a.data.target_slot >= pool_call.slot
        /\ \A id \in DOMAIN attestations :
            LET bucket == pool_call.before[id]
            IN  attestations[id] =
                    IF \A k \in 1..Len(bucket) : bucket[k].data.target_slot >= pool_call.slot
                    THEN bucket ELSE <<>>

\* A prune at the slot of one bucket's attestations has kept that bucket,
\* of two entries, and removed a bucket of an earlier slot.
C25_Witness ==
    /\ pool_call.op = "prune_attestations"
    /\ \E id \in DOMAIN attestations :
        /\ Len(attestations[id]) = 2
        /\ attestations[id][1].data.target_slot = pool_call.slot
    /\ \E id \in DOMAIN attestations :
        pool_call.before[id] # <<>> /\ attestations[id] = <<>>

\* The entries of the buckets whose key has the signing domain of the slot
\* before this one.
MatchingEntries(map, slot) ==
    UNION {{map[id][k] : k \in 1..Len(map[id])} :
            id \in {i \in DOMAIN map :
                        i.domain_bytes = DomainBytes((slot - 1) \div SlotsPerEpoch, slot - 1)}}

\* C26: get_attestation returns at most one attestation and leaves the pool
\* as it was; it returns nothing exactly when no entry of the pool is under
\* the signing domain of slot state.slot - 1, and otherwise one of those
\* entries, with the most signer bits among them.
C26_GetReturnsFullestMatch ==
    pool_call.op = "get_attestation" =>
        LET matching == MatchingEntries(pool_call.before, pool_call.slot)
        IN  /\ Len(pool_call.ret) <= 1
            /\ attestations = pool_call.before
            /\ (pool_call.ret = <<>>) = (matching = {})
            /\ pool_call.ret # <<>> =>
                /\ pool_call.ret[1] \in matching
                /\ \A a \in matching : NumSetBits(a) <= NumSetBits(pool_call.ret[1])

\* get_attestation has returned the second entry of a bucket, the first
\* having fewer signers.
C26_Witness ==
    /\ pool_call.op = "get_attestation"
    /\ \E id \in DOMAIN attestations :
        /\ Len(attestations[id]) = 2
        /\ pool_call.ret = <<attestations[id][2]>>
        /\ NumSetBits(attestations[id][1]) < NumSetBits(attestations[id][2])

(***************************************************************************)
(* Concurrent calls on the pool.                                           *)
(***************************************************************************)
\* The map after the first n calls of lock_order, run one after the other
\* on the map the calls found.
RECURSIVE PoolAfter(_)
PoolAfter(n) ==
    IF n = 0 THEN first_pool
    ELSE LET th == threads[lock_order[n]]
             map == PoolAfter(n - 1)
         IN  CASE th.op = "insert_attestation" -> InsertAttestation(map, th.attestation)
               [] th.op = "prune_attestations" -> PruneAttestations(map, th.slot)
               [] OTHER -> map

PlaceOf(t) == CHOOSE n \in 1..Len(lock_order) : lock_order[n] = t

Returned(t) == threads[t].pc = "done"

\* C27: the calls are linearizable in the order they were given the lock:
\* whenever no call is writing, the map is the one that the calls given the
\* lock so far leave when run one after the other in that order, so no
\* insert is lost; and a get_attestation that has returned has returned what
\* it returns on the map left by the calls before it in that order, never
\* the entry of a bucket that an insert is working on.
C27_Linearizable ==
    /\ lock.writer = 0 => shared_pool = PoolAfter(Len(lock_order))
    /\ \A t \in 1..NumThreads :
        (Returned(t) /\ threads[t].op = "get_attestation") =>
            threads[t].ret \in GetAttestation(PoolAfter(PlaceOf(t) - 1), threads[t].slot)

\* An insert that aggregates into two entries of a bucket and a
\* get_attestation have both returned, the get having waited for the insert.
C27_Witness ==
    /\ \A t \in 1..NumThreads : Returned(t)
    /\ \E t, u \in 1..NumThreads :
        /\ threads[t].op = "insert_attestation"
        /\ threads[u].op = "get_attestation"
        /\ lock_order = <<t, u>>
        /\ threads[t].k > 2
        /\ shared_pool # first_pool
        /\ threads[u].ret \notin GetAttestation(first_pool, threads[u].slot)

(***************************************************************************)
(* Exit signals of the services.                                           *)
(***************************************************************************)
\* The list of signals as the one who holds it has it.
HeldSignals ==
    CASE holder = "builder" -> exit_signals
      [] holder = "client" -> client_exit_signals
      [] OTHER -> <<>>

TimesIn(list, signal) == Cardinality({k \in DOMAIN list : list[k] = signal})

OneSignalPerService ==
    /\ holder # "nobody" =>
        /\ Len(HeldSignals) = Len(tasks)
        /\ \A i \in DOMAIN tasks : TimesIn(HeldSignals, tasks[i].signal) = 1
    /\ last_step.started => Len(last_step.after) = Len(last_step.before) + 1
    /\ ~last_step.ok => last_step.after = last_step.before

NoTickAfterDrop ==
    \A i \in DOMAIN tasks :
        tasks[i].signal \in signals_dropped => tasks'[i].ticks = tasks[i].ticks

\* C28: every started service has exactly one exit signal in the list that
\* the builder, and after build the client, holds, a step that starts a
\* service makes the list one longer and a step that fails leaves it as it
\* was; and the task of a service whose signal has been dropped ticks no
\* more.
C28_OneSignalPerServiceNoTickAfterDrop ==
    []OneSignalPerService /\ [][NoTickAfterDrop]_vars

\* The client was built with two services and dropped; one of their tasks had
\* ticked, was polled again and ended.
C28_Witness ==
    /\ holder = "nobody"
    /\ last_step.ok
    /\ Len(tasks) = 2
    /\ \E i \in DOMAIN tasks : tasks[i].ended /\ tasks[i].ticks > 0

(***************************************************************************)
(* Canonical roots of shard blocks.                                        *)
(***************************************************************************)
WithoutSignature(b) == [b EXCEPT !.signature = 0]

\* C29: two shard blocks have the same canonical root exactly when they
\* differ in nothing but the signature, and a block and its block_header()
\* have the same canonical root.
C29_CanonicalRootExcludesSignature ==
    shard_roots.computed =>
        /\ (shard_roots.block = shard_roots.other)
            <=> (WithoutSignature(shard_block) = WithoutSignature(other_block))
        /\ shard_roots.header = shard_roots.block

\* The roots of two blocks that differ in their signature only were computed.
C29_Witness ==
    /\ shard_roots.computed
    /\ shard_block # other_block
    /\ WithoutSignature(shard_block) = WithoutSignature(other_block)
    /\ shard_block.body # <<>>
    /\ shard_block.attestation # <<>>

(***************************************************************************)
(* The registry and the balances.                                          *)
(***************************************************************************)
SameLength(st) == Len(st.validator_registry) = Len(st.balances)

\* C30: from a state whose validator registry and balances have the same
\* length, every state that per_block_processing reaches, in the middle of
\* the block, at its acceptance or at its rejection, has them of the same
\* length.
C30_RegistryAndBalancesSameLength == SameLength(pre) => SameLength(state)

\* A block was rejected after its deposits had topped up one validator and
\* created another.
C30_Witness ==
    /\ Failed
    /\ result.step \in {"exits", "transfers"}
    /\ Len(state.validator_registry) = Len(pre.validator_registry) + 1
    /\ \E i \in DOMAIN pre.balances : state.balances[i] > pre.balances[i]
    /\ block.deposits # <<>>

(***************************************************************************)
(* find_head.                                                              *)
(***************************************************************************)
FindHeadResult == fh_path[Len(fh_path)]

\* C31: every move of find_head is to a child no sibling of which is
\* heavier, and none as heavy with a greater root; the walk starts at
\* start_root, is never at a node twice, and what it returns is a leaf.
C31_FindHeadHeaviestChildGreaterRootOnTie ==
    /\ fh_pc # "idle" => fh_path[1] = fh_start
    /\ \A k \in 1..(Len(fh_path) - 1) :
        /\ fh_path[k + 1] \in Children(ghost_tree, fh_path[k])
        /\ \A d \in Children(ghost_tree, fh_path[k]) \ {fh_path[k + 1]} :
            \/ Weight(ghost_tree, d) < Weight(ghost_tree, fh_path[k + 1])
            \/ /\ Weight(ghost_tree, d) = Weight(ghost_tree, fh_path[k + 1])
               /\ d < fh_path[k + 1]
    /\ \A j, k \in DOMAIN fh_path : j # k => fh_path[j] # fh_path[k]
    /\ fh_pc = "returned" => Children(ghost_tree, FindHeadResult) = {}

\* Two children of the start have the same weight, more than none, and the
\* one with the greater root has a child: find_head returned a descendant of
\* the greater.
C31_Witness ==
    /\ fh_pc = "returned"
    /\ \E a, b \in Children(ghost_tree, fh_start) :
        /\ a < b
        /\ Weight(ghost_tree, a) = Weight(ghost_tree, b)
        /\ Weight(ghost_tree, a) > 0
        /\ IsAncestorOrSelf(ghost_tree, b, FindHeadResult)
        /\ FindHeadResult # b

(***************************************************************************)
(* The entries of a bucket and the signers of the inserted attestations.   *)
(***************************************************************************)
\* C32: no bucket holds two entries with the same signer bitfield.
C32_NoTwoEntriesSameBitfield ==
    \A id \in DOMAIN attestations :
        \A i, j \in 1..Len(attestations[id]) :
            i # j => attestations[id][i].aggregation_bitfield
                        # attestations[id][j].aggregation_bitfield

InsertedUnder(id) ==
    {k \in DOMAIN inserted : AttestationIdFromData(inserted[k].data) = id}

BitsOfBucket(id) ==
    UNION {attestations[id][k].aggregation_bitfield : k \in DOMAIN attestations[id]}

BitsInsertedUnder(id) ==
    UNION {inserted[k].aggregation_bitfield : k \in InsertedUnder(id)}

\* C33: the bits set in the entries of a bucket are exactly the bits set in
\* the attestations inserted under its key: every signer of an inserted
\* attestation is in some entry, and every signer of an entry was inserted.
C33_SignersKeptNoneInvented ==
    \A id \in DOMAIN attestations : BitsOfBucket(id) = BitsInsertedUnder(id)

\* Three attestations of one key were inserted, the last aggregated into one
\* entry and overlapping another, and the bucket has two entries.
C33_Witness ==
    /\ Len(inserted) = 3
    /\ SameKey(inserted[1], inserted[2]) /\ SameKey(inserted[2], inserted[3])
    /\ inserted[1].aggregation_bitfield = {1, 2}
    /\ inserted[2].aggregation_bitfield = {2, 3}
    /\ inserted[3].aggregation_bitfield = {3}
    /\ Len(attestations[AttestationIdFromData(inserted[1].data)]) = 2

(***************************************************************************)
(* Concurrent insert_body and get_body.                                    *)
(***************************************************************************)
GotBody(t) ==
    /\ body_calls[t].op = "get_body"
    /\ body_calls[t].pc = "done"
    /\ body_calls[t].ret # <<>>

\* C34: no body is returned by two get_body calls, and once every call has
\* returned, every body that a reset of get_body overwrote was returned by a
\* get_body.
C34_BodyReturnedOnceNoneErasedUnreturned ==
    /\ \A t, u \in 1..NumBodyThreads :
        (t # u /\ GotBody(t) /\ GotBody(u)) => body_calls[t].ret # body_calls[u].ret
    /\ (\A t \in 1..NumBodyThreads : body_calls[t].pc \in {"idle", "done"}) =>
        \A b \in body_erased :
            \E t \in 1..NumBodyThreads : GotBody(t) /\ body_calls[t].ret = b

(***************************************************************************)
(* Overflow of start_slot + count in a BlocksByRange request.              *)
(***************************************************************************)
RangeHandlerRan == last.handler = "on_blocks_by_range_request"

\* The bodies of the responses sent before the last one.
BodiesBeforeLast ==
    {network_send[k].body : k \in 1..(Len(network_send) - 1)}

\* C35: for every start_slot and count the handler of a BlocksByRange request
\* completes, its last response is the terminator, and the blocks sent
\* before it are the canonical blocks whose slot s has start_slot <= s and
\* s - start_slot < count.
C35_RangeHandlerSameWithOverflow ==
    RangeHandlerRan =>
        LET req == last.input[2]
            wanted == {t \in CanonicalSlots(chain) :
                          req.start_slot <= t /\ t - req.start_slot < req.count}
        IN  /\ last.ret # <<"panic">>
            /\ network_send # <<>>
            /\ network_send[Len(network_send)]
                 = NoBody(RpcResponse(last.peer, last.input[1], "BlocksByRange", 0))
            /\ BodiesBeforeLast = {<<AsSszBytes(BeaconBlockAt(t))>> : t \in wanted}

(***************************************************************************)
(* Underflow of deposit_count - deposit_index.                             *)
(***************************************************************************)
IndexWithinCount(st) == st.deposit_index <= st.latest_eth1_data.deposit_count

\* C36: from a state whose deposit_index is at most the deposit_count of its
\* latest_eth1_data, every state of the block's processing has it so, and
\* process_deposits does not panic on the subtraction.
C36_DepositIndexWithinCount ==
    IndexWithinCount(pre) =>
        /\ IndexWithinCount(state)
        /\ result # Panic("deposits")

(***************************************************************************)
(* One proposer slashed twice in a block.                                  *)
(***************************************************************************)
SameProposerTwice ==
    \E j, k \in DOMAIN block.proposer_slashings :
        /\ j < k
        /\ block.proposer_slashings[j].proposer_index
             = block.proposer_slashings[k].proposer_index

\* C37: a block whose proposer slashings name one proposer twice is rejected
\* by process_proposer_slashings, so that no validator is slashed twice by
\* the proposer slashings of one block.
C37_ProposerSlashedAtMostOnce ==
    (StepHasRun("proposer_slashings") /\ SameProposerTwice) =>
        (Failed /\ result.step = "proposer_slashings")

(***************************************************************************)
(* Deposits for a pubkey that is in the registry.                          *)
(***************************************************************************)
\* Deposit k is for a pubkey that is in the registry when its turn comes, or
\* creates its validator.
DepositCounts(deposits, k) ==
    \/ deposits[k].pubkey \in Pubkeys(pre)
    \/ \E j \in 1..k : deposits[j].pubkey = deposits[k].pubkey /\ deposits[j].signature_valid

DepositedFor(deposits, pubkey) ==
    Cardinality({k \in DOMAIN deposits :
                    deposits[k].pubkey = pubkey /\ DepositCounts(deposits, k)})

BalanceBefore(pubkey) ==
    IF pubkey \in Pubkeys(pre)
    THEN pre.balances[CHOOSE i \in DOMAIN pre.validator_registry :
                          pre.validator_registry[i].pubkey = pubkey]
    ELSE 0

\* C38: after process_deposits has returned Ok (in a block without
\* slashings, whose deposits have the expected indices), no two entries of
\* the registry have the same pubkey, and the balance of every validator is
\* what it was before the block plus the amounts of the deposits for its
\* pubkey, those for a pubkey that an earlier deposit of the block added
\* included.
C38_ExistingPubkeyToppedUp ==
    (pc = "exits" /\ WellIndexed(block.deposits, pre.deposit_index) /\ NoSlashings) =>
        /\ \A i, j \in DOMAIN state.validator_registry :
              i # j => state.validator_registry[i].pubkey # state.validator_registry[j].pubkey
        /\ \A i \in DOMAIN state.validator_registry :
              state.balances[i]
                = BalanceBefore(state.validator_registry[i].pubkey)
                    + DepositedFor(block.deposits, state.validator_registry[i].pubkey)

(***************************************************************************)
(* Processing with and without the check of the block signature.           *)
(***************************************************************************)
\* The block with a proposer signature that verifies.
ValidlySigned(b) == [b EXCEPT !.signature_valid = TRUE]

\* The outcomes of per_block_processing.
PerBlockProcessing(st, b) == RunInOrder(st, b, 1, Len(StepOrder))

\* The outcomes of per_block_processing_without_verifying_block_signature.
PerBlockProcessingWithoutVerifyingBlockSignature(st, b) ==
    LET o == ProcessBlockHeader(st, b, FALSE)
    IN  IF o.result.ok THEN RunInOrder(o.state, b, 2, Len(StepOrder)) ELSE {o}

\* C39: per_block_processing_without_verifying_block_signature gives the
\* result and the state of per_block_processing on every state and block
\* whose proposer signature is valid, and on a block whose signature is
\* invalid it gives what per_block_processing gives on the same block with a
\* valid signature: a returned call without the check has one of those
\* outcomes, and the outcomes of the two calls are the same sets.
C39_WithoutVerifyingAsIfSignatureValid ==
    pc = "returned" =>
        /\ Outcome(state, result) \in PerBlockProcessing(pre, ValidlySigned(block))
        /\ PerBlockProcessingWithoutVerifyingBlockSignature(pre, block)
                = PerBlockProcessing(pre, ValidlySigned(block))
        /\ block.signature_valid =>
                PerBlockProcessingWithoutVerifyingBlockSignature(pre, block)
                    = PerBlockProcessing(pre, block)
        /\ PerBlockProcessingWithoutVerifyingBlockSignature(pre, block)
                # PerBlockProcessing(pre, block) => ~block.signature_valid

\* A block with an invalid proposer signature went through every step
\* without the check, and per_block_processing rejects it for the signature.
C39_Witness ==
    /\ pc = "returned"
    /\ ~block.signature_valid
    /\ result = Ok
    /\ state.latest_block_header = TemporaryBlockHeader(block)
    /\ PerBlockProcessing(pre, block)
            = {Outcome([pre EXCEPT !.latest_block_header = TemporaryBlockHeader(block)],
                       Err("header", NoIndex, "BadSignature"))}

(***************************************************************************)
(* Shard per-slot processing.                                              *)
(***************************************************************************)
\* A call of per_shard_slot_processing returned Ok and moved the slot by one.
CallAdvancesByOne ==
    slot_loop'.calls = slot_loop.calls + 1 =>
        /\ slot_loop'.ret = "Ok"
        /\ shard_state'.slot = shard_state.slot + 1

\* The calls of the loop so far are the slots the state has moved, and a
\* loop that ended has made block.slot - state.slot calls and left the state
\* at the slot of the block.
CallsAreSlots ==
    /\ slot_loop.pc \in {"looping", "done"} =>
            /\ slot_loop.calls = shard_state.slot - slot_loop.start
            /\ shard_state.slot <= slot_loop.block_slot
    /\ slot_loop.pc = "done" =>
            /\ shard_state.slot = slot_loop.block_slot
            /\ slot_loop.calls = slot_loop.block_slot - slot_loop.start

\* C40: each call of per_shard_slot_processing returns Ok and advances
\* state.slot by exactly one, at a period boundary as elsewhere, and the loop
\* that calls it while state.slot < block.slot ends, after exactly
\* block.slot - state.slot calls, with state.slot = block.slot.
C40_SlotAdvancesByOneLoopTerminates ==
    /\ []CallsAreSlots
    /\ [][CallAdvancesByOne]_vars
    /\ (slot_loop.pc = "looping") ~> (slot_loop.pc = "done")

\* A loop of three calls ended, one of them at a period boundary and one not.
C40_Witness ==
    /\ slot_loop.pc = "done"
    /\ slot_loop.calls = 3
    /\ slot_loop.at_period_boundary \in 1..2
    /\ shard_state.slot = slot_loop.start + 3

====
